---- MODULE Spec2Model ----
(***************************************************************************)
(* Model of the Synapse Council deliberation service                      *)
(* (paihanhuang/staff_system): the LangGraph phase machine of             *)
(* src/graph, and the session run of src/api/handlers.py and its entry    *)
(* points in src/api/routes.py.                                           *)
(*                                                                         *)
(* Numbers in [0,1] (confidence, agreement_level) are the integers        *)
(* 0..MaxLevel, read as level/MaxLevel.  consensus_level is kept as a     *)
(* numerator over LevelDen = 4*MaxLevel, so that the average of two       *)
(* levels and its half are exact.                                         *)
(*                                                                         *)
(* Two specifications share the variables and every action but the graph  *)
(* step:                                                                   *)
(*   Spec      the program as the sources have it.  route_after_cross_    *)
(*             critique (edges.py) returns "audit", a key that the path   *)
(*             map create_graph gives to the cross_critique edge does not *)
(*             hold, so the graph run raises KeyError there.              *)
(*   SpecWired the same program with a routing key that the path map does *)
(*             not hold resolved to the single destination of that path   *)
(*             map (graph.py wires cross_critique to refinement only).    *)
(*             It exercises the node functions behind CROSS_CRITIQUE.     *)
(*                                                                         *)
(* Two more specifications look at the graph run from the side:           *)
(*   SpecStream   the merge of the node updates in run_graph_stream.      *)
(*   SpecPhase    the agent calls that the nodes hand to asyncio.gather,  *)
(*                each returning or raising in its own time.              *)
(*                                                                         *)
(* The resilience layer below the agents (utils/resilience.py and the     *)
(* adapters) has its own variables and specifications:                    *)
(*   SpecBreaker  one CircuitBreaker of any configuration, its methods    *)
(*                called in any order as time passes.                     *)
(*   SpecAdapter  two sessions calling one adapter class: the fallback    *)
(*                loop over the model chain, with_retry around each       *)
(*                model, the breaker the calls share.                     *)
(*   SpecDelay    calculate_delay applied to a RetryConfig.               *)
(*   SpecAdapterFair  SpecAdapter with calls that keep arriving, attempts *)
(*                that end, and a clock that advances.                    *)
(* Times are whole ticks; a delay is a numerator over DelayDen.           *)
(*                                                                         *)
(* The API layer (api/rate_limiter.py, utils/sanitization.py and the      *)
(* SessionManager of api/handlers.py under the routes) has its own        *)
(* variables and specifications:                                          *)
(*   SpecBucket   one TokenBucket, consume called as time passes.         *)
(*   SpecWindow   one SlidingWindowCounter.                               *)
(*   SpecLimiter  a SessionRateLimiter asked by two sessions.             *)
(*   SpecManager  the entry points, continue_session, get_session and a   *)
(*                restart around concurrent run_session calls; a graph    *)
(*                run is taken by the states that its stream yields.      *)
(*   SpecCleanup  the SessionRateLimiter with cleanup_session called      *)
(*                between the checks.                                     *)
(*   SpecLifecycle  create_session, delete_session, get_session and a     *)
(*                restart around runs that hold their Session object.     *)
(* Bucket tokens of a RateLimiter are counted in sixtieths of a token, a  *)
(* wait is a fraction of seconds, a question is a sequence of characters. *)
(***************************************************************************)
EXTENDS Integers, Sequences, FiniteSets, TLC

\* ------------------------------------------------------------------ bounds
MaxLevel == 1
MaxRoundsArg == 2

\* ------------------------------------------------------- program constants
DefaultMaxRounds == 3

Levels == 0..MaxLevel
LevelDen == 4 * MaxLevel

\* ------------------------------------------------------------------ values
NoneVal == [none |-> TRUE]
Fail == [failed |-> TRUE]
Err(m) == [msg |-> m]

Proposal(role, kind, c) == [role |-> role, kind |-> kind, confidence |-> c]
Critique(a) == [agreement_level |-> a]
AuditResult(p, c) == [preferred_approach |-> p, consensus_possible |-> c]

Approaches == {"architect", "engineer", "hybrid"}

ProposalOutcomes(role, kind) == {Fail} \cup {Proposal(role, kind, c) : c \in Levels}
CritiqueOutcomes == {Fail} \cup {Critique(a) : a \in Levels}
AuditOutcomes == {Fail} \cup {AuditResult(p, c) : p \in Approaches, c \in BOOLEAN}

\* `x or y` on two optional values
OrElse(x, y) == IF x # NoneVal THEN x ELSE y

\* GraphState(...) as run_graph_stream and run_session construct it
GraphState(mr, turns) ==
    [ architect_proposal |-> NoneVal,
      engineer_proposal |-> NoneVal,
      architect_critique |-> NoneVal,
      engineer_critique |-> NoneVal,
      architect_refined_proposal |-> NoneVal,
      engineer_refined_proposal |-> NoneVal,
      architect_critique_2 |-> NoneVal,
      engineer_critique_2 |-> NoneVal,
      audit_result |-> NoneVal,
      consensus_reached |-> FALSE,
      round_number |-> 0,
      max_rounds |-> mr,
      final_adr |-> NoneVal,
      conversation_history |-> <<>>,
      conversation_turns |-> turns,
      current_phase |-> "start",
      error |-> NoneVal ]

\* result of a node: the merged state, or the exception it raised
Ok(s) == [raised |-> FALSE, state |-> s, exc |-> NoneVal]
Raise(m) == [raised |-> TRUE, state |-> NoneVal, exc |-> Err(m)]

\* ------------------------------------------------------------------- nodes
IdeationMessages(a, e) ==
    (IF a # NoneVal THEN <<"architect:proposal">> ELSE <<>>) \o
    (IF e # NoneVal THEN <<"engineer:proposal">> ELSE <<>>)


\* ideation_node failing the phase as soon as one role fails
ideation_node_any(s, ra, re) ==
    IF ra = Fail \/ re = Fail
    THEN Ok([s EXCEPT !.current_phase = "error",
                      !.error = Err("Ideation phase failed")])
    ELSE Ok([s EXCEPT !.architect_proposal = ra,
                      !.engineer_proposal = re,
                      !.current_phase = "ideation_complete",
                      !.conversation_history = @ \o IdeationMessages(ra, re)])

ideation_node(s, ra, re) ==
    IF ra = Fail /\ re = Fail
    THEN Ok([s EXCEPT !.current_phase = "error",
                      !.error = Err("Ideation phase failed")])
    ELSE LET a == IF ra = Fail THEN NoneVal ELSE ra
             e == IF re = Fail THEN NoneVal ELSE re
         IN Ok([s EXCEPT !.architect_proposal = a,
                         !.engineer_proposal = e,
                         !.current_phase = "ideation_complete",
                         !.conversation_history = @ \o IdeationMessages(a, e)])

\* cross_critique_node keeping the critique of the critic that succeeded
cross_critique_node_partial(s, ra, re) ==
    IF s.architect_proposal = NoneVal \/ s.engineer_proposal = NoneVal
    THEN Raise("Both proposals must exist for cross-critique")
    ELSE IF ra = Fail /\ re = Fail
    THEN Raise("agent call failed")
    ELSE Ok([s EXCEPT !.architect_critique = IF ra = Fail THEN NoneVal ELSE ra,
                      !.engineer_critique = IF re = Fail THEN NoneVal ELSE re,
                      !.current_phase = "cross_critique_complete"])

cross_critique_node(s, ra, re) ==
    IF s.architect_proposal = NoneVal \/ s.engineer_proposal = NoneVal
    THEN Raise("Both proposals must exist for cross-critique")
    ELSE IF ra = Fail \/ re = Fail
    THEN Raise("agent call failed")
    ELSE Ok([s EXCEPT !.architect_critique = ra,
                      !.engineer_critique = re,
                      !.current_phase = "cross_critique_complete",
                      !.conversation_history =
                          @ \o <<"architect:critique", "engineer:critique">>])

refinement_node(s, ra, re) ==
    IF \/ s.architect_proposal = NoneVal \/ s.engineer_proposal = NoneVal
       \/ s.architect_critique = NoneVal \/ s.engineer_critique = NoneVal
    THEN Raise("All proposals and critiques must exist for refinement")
    ELSE IF ra = Fail \/ re = Fail
    THEN Raise("agent call failed")
    ELSE Ok([s EXCEPT !.architect_refined_proposal = ra,
                      !.engineer_refined_proposal = re,
                      !.current_phase = "refinement_complete",
                      !.conversation_history =
                          @ \o <<"architect:refined", "engineer:refined">>])

cross_critique_2_node(s, ra, re) ==
    IF s.architect_refined_proposal = NoneVal \/ s.engineer_refined_proposal = NoneVal
    THEN Raise("Both refined proposals must exist for cross-critique 2")
    ELSE IF ra = Fail \/ re = Fail
    THEN Raise("agent call failed")
    ELSE Ok([s EXCEPT !.architect_critique_2 = ra,
                      !.engineer_critique_2 = re,
                      !.current_phase = "cross_critique_2_complete",
                      !.conversation_history =
                          @ \o <<"architect:critique_2", "engineer:critique_2">>])


\* audit_node counting a round twice
audit_node_twice(s, r) ==
    LET architect_proposal == OrElse(s.architect_refined_proposal, s.architect_proposal)
        engineer_proposal == OrElse(s.engineer_refined_proposal, s.engineer_proposal)
        architect_critique == OrElse(s.architect_critique_2, s.architect_critique)
        engineer_critique == OrElse(s.engineer_critique_2, s.engineer_critique)
    IN IF \/ architect_proposal = NoneVal \/ engineer_proposal = NoneVal
          \/ architect_critique = NoneVal \/ engineer_critique = NoneVal
       THEN Raise("All proposals and critiques must exist for audit")
       ELSE IF r = Fail
       THEN Raise("agent call failed")
       ELSE Ok([s EXCEPT !.audit_result = r,
                         !.consensus_reached = r.consensus_possible,
                         !.current_phase = "audit_complete",
                         !.round_number = @ + 2,
                         !.conversation_history = @ \o <<"auditor:audit">>])

audit_node(s, r) ==
    LET architect_proposal == OrElse(s.architect_refined_proposal, s.architect_proposal)
        engineer_proposal == OrElse(s.engineer_refined_proposal, s.engineer_proposal)
        architect_critique == OrElse(s.architect_critique_2, s.architect_critique)
        engineer_critique == OrElse(s.engineer_critique_2, s.engineer_critique)
    IN IF \/ architect_proposal = NoneVal \/ engineer_proposal = NoneVal
          \/ architect_critique = NoneVal \/ engineer_critique = NoneVal
       THEN Raise("All proposals and critiques must exist for audit")
       ELSE IF r = Fail
       THEN Raise("agent call failed")
       ELSE Ok([s EXCEPT !.audit_result = r,
                         !.consensus_reached = r.consensus_possible,
                         !.current_phase = "audit_complete",
                         !.round_number = @ + 1,
                         !.conversation_history = @ \o <<"auditor:audit">>])


\* the hybrid branch with the tie given to the engineer
MajorityProposal_strict(s) ==
    IF s.audit_result.preferred_approach = "architect"
    THEN s.architect_proposal
    ELSE IF s.audit_result.preferred_approach = "engineer"
    THEN s.engineer_proposal
    ELSE IF s.architect_proposal.confidence > s.engineer_proposal.confidence
    THEN s.architect_proposal
    ELSE s.engineer_proposal

\* the proposal convergence_node takes as the majority opinion
MajorityProposal(s) ==
    IF s.audit_result.preferred_approach = "architect"
    THEN s.architect_proposal
    ELSE IF s.audit_result.preferred_approach = "engineer"
    THEN s.engineer_proposal
    ELSE IF s.architect_proposal.confidence >= s.engineer_proposal.confidence
    THEN s.architect_proposal
    ELSE s.engineer_proposal

\* consensus_level of convergence_node, as a numerator over LevelDen
ConsensusLevel(s) ==
    LET sum == s.architect_critique.agreement_level + s.engineer_critique.agreement_level
    IN IF s.consensus_reached THEN 2 * sum ELSE sum

convergence_node(s) ==
    IF \/ s.architect_proposal = NoneVal \/ s.engineer_proposal = NoneVal
       \/ s.audit_result = NoneVal
    THEN Raise("Proposals and audit result must exist for convergence")
    ELSE IF s.architect_critique = NoneVal \/ s.engineer_critique = NoneVal
    THEN Raise("AttributeError")
    ELSE Ok([s EXCEPT !.final_adr = [majority_opinion |-> MajorityProposal(s),
                                      consensus_level |-> ConsensusLevel(s),
                                      rounds_taken |-> s.round_number],
                      !.current_phase = "complete",
                      !.conversation_history = @ \o <<"system:decision">>])

\* escalate_node tagging its result with the phase of a failed run
escalate_node_as_error(s) ==
    LET architect_proposal == OrElse(s.architect_refined_proposal, s.architect_proposal)
        engineer_proposal == OrElse(s.engineer_refined_proposal, s.engineer_proposal)
    IN IF \/ architect_proposal = NoneVal \/ engineer_proposal = NoneVal
          \/ s.audit_result = NoneVal
       THEN Raise("AttributeError")
       ELSE Ok([s EXCEPT !.current_phase = "error",
                         !.error = Err("escalation")])

escalate_node(s) ==
    LET architect_proposal == OrElse(s.architect_refined_proposal, s.architect_proposal)
        engineer_proposal == OrElse(s.engineer_refined_proposal, s.engineer_proposal)
    IN IF \/ architect_proposal = NoneVal \/ engineer_proposal = NoneVal
          \/ s.audit_result = NoneVal
       THEN Raise("AttributeError")
       ELSE Ok([s EXCEPT !.current_phase = "escalated",
                         !.error = Err("escalation")])


\* route_after_ideation without its error check
route_after_ideation_blind(s) == "cross_critique"

\* ----------------------------------------------------------------- routing
route_after_ideation(s) ==
    IF s.error # NoneVal \/ s.current_phase = "error" THEN "end" ELSE "cross_critique"

route_after_cross_critique(s) == "audit"

route_after_refinement(s) == "cross_critique_2"

route_after_cross_critique_2(s) == "audit"


\* route_after_audit testing the round limit before the consensus flag
route_after_audit_limit_first(s) ==
    IF s.round_number >= s.max_rounds THEN "escalate"
    ELSE IF s.consensus_reached THEN "convergence"
    ELSE "ideation"

\* route_after_audit settling at the round limit without consensus
route_after_audit_converge_at_limit(s) ==
    IF s.consensus_reached THEN "convergence"
    ELSE IF s.round_number >= s.max_rounds THEN "convergence"
    ELSE "ideation"

route_after_audit(s) ==
    IF s.consensus_reached THEN "convergence"
    ELSE IF s.round_number >= s.max_rounds THEN "escalate"
    ELSE "ideation"

ConditionalNodes == {"ideation", "cross_critique", "refinement", "cross_critique_2", "audit"}

\* the routing function create_graph attaches to each conditional edge
Router(n, s) ==
    CASE n = "ideation" -> route_after_ideation(s)
      [] n = "cross_critique" -> route_after_cross_critique(s)
      [] n = "refinement" -> route_after_refinement(s)
      [] n = "cross_critique_2" -> route_after_cross_critique_2(s)
      [] n = "audit" -> route_after_audit(s)

\* the path maps of create_graph's conditional edges
create_graph(n) ==
    CASE n = "ideation" -> [cross_critique |-> "cross_critique", end |-> "END"]
      [] n = "cross_critique" -> [refinement |-> "refinement"]
      [] n = "refinement" -> [cross_critique_2 |-> "cross_critique_2"]
      [] n = "cross_critique_2" -> [audit |-> "audit"]
      [] n = "audit" -> [convergence |-> "convergence", escalate |-> "escalate",
                         ideation |-> "ideation"]

\* the only destination of a path map with one entry
OnlyDestination(n) == CHOOSE d \in {create_graph(n)[k] : k \in DOMAIN create_graph(n)} : TRUE

\* the agent calls a node issues, as the set of their possible outcomes
NodeOutcomes(n) ==
    CASE n = "ideation" ->
           ProposalOutcomes("architect", "original") \X ProposalOutcomes("engineer", "original")
      [] n = "refinement" ->
           ProposalOutcomes("architect", "refined") \X ProposalOutcomes("engineer", "refined")
      [] n \in {"cross_critique", "cross_critique_2"} -> CritiqueOutcomes \X CritiqueOutcomes
      [] n = "audit" -> AuditOutcomes \X {NoneVal}
      [] OTHER -> {<<NoneVal, NoneVal>>}

RunNode(n, s, o) ==
    CASE n = "ideation" -> ideation_node(s, o[1], o[2])
      [] n = "cross_critique" -> cross_critique_node(s, o[1], o[2])
      [] n = "refinement" -> refinement_node(s, o[1], o[2])
      [] n = "cross_critique_2" -> cross_critique_2_node(s, o[1], o[2])
      [] n = "audit" -> audit_node(s, o[1])
      [] n = "convergence" -> convergence_node(s)
      [] n = "escalate" -> escalate_node(s)

\* Session.update_state: the completion flag it derives from a state
UpdateStateComplete(s) == s.final_adr # NoneVal \/ s.error # NoneVal

\* ------------------------------------------------------------------- state
VARIABLES
    state,           \* session.state / the state run_graph_stream accumulates
    is_complete,     \* session.is_complete
    pc,              \* position of the run
    node,            \* the graph node to execute next
    entry,           \* entry point that started the run
    previous_turns,  \* run_session's local previous_turns
    exc,             \* exception in flight or handled
    stored,          \* the persisted session record
    hist             \* history of the run (observation only)

vars == <<state, is_complete, pc, node, entry, previous_turns, exc, stored, hist>>

\* the resilience layer below the agents (utils/resilience.py, adapters)
VARIABLES
    circuit_breaker, \* the CircuitBreaker the calls share
    adapter,         \* the adapter: its model chain and RetryConfig
    now,             \* time.time()
    calls,           \* per session, its adapter call in progress
    rhist            \* history of the breaker and the calls (observation only)

rvars == <<circuit_breaker, adapter, now, calls, rhist>>

\* the graph model takes each agent call as one step with an outcome
NoResilience ==
    /\ circuit_breaker = NoneVal
    /\ adapter = NoneVal
    /\ now = 0
    /\ calls = NoneVal
    /\ rhist = NoneVal

\* the API layer above the session run (api/rate_limiter.py, api/handlers.py,
\* api/routes.py, utils/storage.py)
VARIABLES
    bucket,          \* a TokenBucket
    window,          \* a SlidingWindowCounter
    rate_limiter,    \* the SessionRateLimiter of routes.py
    sessions,        \* SessionManager._sessions
    storage,         \* the session files of SessionStorage
    tasks,           \* the requests and background tasks in flight
    ahist            \* history of the API layer (observation only)

avars == <<bucket, window, rate_limiter, sessions, storage, tasks, ahist>>

\* the graph and resilience models run below one session of one request
NoApi ==
    /\ bucket = NoneVal
    /\ window = NoneVal
    /\ rate_limiter = NoneVal
    /\ sessions = NoneVal
    /\ storage = NoneVal
    /\ tasks = NoneVal
    /\ ahist = NoneVal

SessionEntries == {"sync", "background"}

Hist0 == [steps |-> 0, last |-> "start", last_raised |-> FALSE, audits |-> 0,
          ideations |-> 0, call_failed |-> FALSE, consensus_seen |-> FALSE,
          ideation_fails |-> 0, post_failure |-> FALSE]

Init ==
    /\ state = NoneVal
    /\ is_complete = FALSE
    /\ pc = "idle"
    /\ node = "none"
    /\ entry = "none"
    /\ previous_turns = <<>>
    /\ exc = NoneVal
    /\ stored = NoneVal
    /\ hist = Hist0
    /\ NoResilience
    /\ NoApi

\* --------------------------------------------------------- starting a run
\* create_session followed by the prologue of run_session (handlers.py 202-226)
BeginRunSession(e) ==
    /\ entry' = e
    /\ previous_turns' = <<>>
    /\ state' = GraphState(DefaultMaxRounds, <<>>)
    /\ is_complete' = UpdateStateComplete(state')
    /\ node' = "ideation"
    /\ pc' = "graph"
    /\ UNCHANGED <<exc, stored, hist>>
    /\ UNCHANGED rvars
    /\ UNCHANGED avars

\* POST /design: start_design awaits run_session
StartDesign ==
    /\ pc = "idle"
    /\ BeginRunSession("sync")

\* POST /design/start: run_session inside _run_session_background
StartDesignAsync ==
    /\ pc = "idle"
    /\ BeginRunSession("background")

\* a caller iterating run_graph_stream(max_rounds = N) itself
RunGraphStream ==
    /\ pc = "idle"
    /\ \E mr \in 1..MaxRoundsArg : state' = GraphState(mr, <<>>)
    /\ entry' = "direct"
    /\ node' = "ideation"
    /\ pc' = "graph"
    /\ UNCHANGED <<is_complete, previous_turns, exc, stored, hist>>
    /\ UNCHANGED rvars
    /\ UNCHANGED avars

\* ------------------------------------------------------------- graph step
Count(b) == IF b THEN 1 ELSE 0

FailedCalls(n, o) ==
    IF n \in {"convergence", "escalate"} THEN 0
    ELSE Count(o[1] = Fail) + Count(o[2] = Fail)

\* the node reaches its agent calls (its input check passes)
CallsIssued(n, s) ==
    CASE n = "ideation" -> TRUE
      [] n \in {"convergence", "escalate"} -> FALSE
      [] OTHER -> RunNode(n, s, <<Fail, Fail>>).exc = Err("agent call failed")

HistAfter(n, s, o, res) ==
    [steps |-> hist.steps + 1,
     last |-> n,
     last_raised |-> res.raised,
     audits |-> hist.audits + Count(n = "audit" /\ ~res.raised),
     ideations |-> hist.ideations + Count(n = "ideation"),
     call_failed |-> hist.call_failed \/ (CallsIssued(n, s) /\ FailedCalls(n, o) > 0),
     consensus_seen |-> hist.consensus_seen
                        \/ (n = "audit" /\ ~res.raised /\ res.state.consensus_reached),
     ideation_fails |-> IF n = "ideation" THEN FailedCalls(n, o) ELSE hist.ideation_fails,
     post_failure |-> hist.post_failure]

\* the stream yields s2: run_session's loop body calls update_state
Yield(s2) ==
    /\ state' = s2
    /\ is_complete' = IF entry \in SessionEntries THEN UpdateStateComplete(s2)
                      ELSE is_complete

\* an exception leaves graph.astream, run_graph_stream and run_session
GraphRaises(e) ==
    /\ pc' = "raised"
    /\ exc' = e
    /\ node' = "ABORT"

\* the run moves to node d, or the stream ends
GoTo(d) ==
    /\ node' = d
    /\ pc' = IF d = "END" THEN "ended" ELSE "graph"
    /\ exc' = exc

\* one super-step of graph.astream: the node runs, its update is merged and
\* yielded, the conditional edge picks the next node
GraphStepWith(wired) ==
    /\ \E o \in NodeOutcomes(node) :
         LET res == RunNode(node, state, o) IN
         /\ hist' = HistAfter(node, state, o, res)
         /\ IF res.raised
            THEN /\ GraphRaises(res.exc)
                 /\ UNCHANGED <<state, is_complete>>
            ELSE IF node \notin ConditionalNodes
            THEN /\ Yield(res.state)
                 /\ GoTo("END")
            ELSE LET key == Router(node, res.state) IN
                 IF key \in DOMAIN create_graph(node)
                 THEN /\ Yield(res.state)
                      /\ GoTo(create_graph(node)[key])
                 ELSE IF wired
                 THEN /\ Yield(res.state)
                      /\ GoTo(OnlyDestination(node))
                 ELSE \* KeyError: raised in the node's own task, or in the
                      \* step after its update was streamed, by library version
                      /\ GraphRaises(Err("KeyError"))
                      /\ \/ UNCHANGED <<state, is_complete>>
                         \/ Yield(res.state)
    /\ UNCHANGED <<entry, previous_turns, stored>>
    /\ UNCHANGED rvars
    /\ UNCHANGED avars

GraphStep ==
    /\ pc = "graph"
    /\ GraphStepWith(FALSE)

GraphStepWired ==
    /\ pc = "graph"
    /\ GraphStepWith(TRUE)

\* ------------------------------------------------------ after the stream
\* run_graph_stream is exhausted in a caller's own loop
StreamEnds ==
    /\ pc = "ended"
    /\ entry = "direct"
    /\ pc' = "returned"
    /\ UNCHANGED <<state, is_complete, node, entry, previous_turns, exc, stored, hist>>
    /\ UNCHANGED rvars
    /\ UNCHANGED avars

ConversationTurn(id, adr) == [turn_id |-> id, adr |-> adr]

\* run_session after its loop (handlers.py 246-262)
Finalize ==
    /\ pc = "ended"
    /\ entry \in SessionEntries
    /\ state' = IF state.final_adr # NoneVal
                THEN [state EXCEPT !.conversation_turns =
                         previous_turns \o <<ConversationTurn(Len(previous_turns) + 1,
                                                              state.final_adr)>>]
                ELSE state
    /\ is_complete' = TRUE
    /\ pc' = "save"
    /\ UNCHANGED <<node, entry, previous_turns, exc, stored, hist>>
    /\ UNCHANGED rvars
    /\ UNCHANGED avars

SessionData == [state_json |-> state,
                conversation_turns |-> state.conversation_turns,
                is_complete |-> is_complete]

\* _save_to_storage / SessionStorage.save_session writes the record
SaveSession ==
    /\ pc = "save"
    /\ stored' = SessionData
    /\ pc' = "returned"
    /\ UNCHANGED <<state, is_complete, node, entry, previous_turns, exc, hist>>
    /\ UNCHANGED rvars
    /\ UNCHANGED avars

\* SessionStorage.save_session logs the I/O error and re-raises it
SaveSessionFails ==
    /\ pc = "save"
    /\ exc' = Err("save failed")
    /\ pc' = "raised"
    /\ hist' = [hist EXCEPT !.post_failure = TRUE]
    /\ UNCHANGED <<state, is_complete, node, entry, previous_turns, stored>>
    /\ UNCHANGED rvars
    /\ UNCHANGED avars

\* _run_session_background: except Exception -> session.state.error = str(e)
BackgroundCatch ==
    /\ pc = "raised"
    /\ entry = "background"
    /\ state' = IF state # NoneVal THEN [state EXCEPT !.error = exc] ELSE state
    /\ pc' = "caught"
    /\ UNCHANGED <<is_complete, node, entry, previous_turns, exc, stored, hist>>
    /\ UNCHANGED rvars
    /\ UNCHANGED avars

\* start_design: except Exception -> HTTPException(500)
StartDesignFails ==
    /\ pc = "raised"
    /\ entry = "sync"
    /\ pc' = "http500"
    /\ UNCHANGED <<state, is_complete, node, entry, previous_turns, exc, stored, hist>>
    /\ UNCHANGED rvars
    /\ UNCHANGED avars

\* nothing between run_graph_stream and its caller handles the exception
StreamRaises ==
    /\ pc = "raised"
    /\ entry = "direct"
    /\ pc' = "escaped"
    /\ UNCHANGED <<state, is_complete, node, entry, previous_turns, exc, stored, hist>>
    /\ UNCHANGED rvars
    /\ UNCHANGED avars

Common ==
    \/ StartDesign
    \/ StartDesignAsync
    \/ RunGraphStream
    \/ StreamEnds
    \/ Finalize
    \/ SaveSession
    \/ SaveSessionFails
    \/ BackgroundCatch
    \/ StartDesignFails
    \/ StreamRaises

Next ==
    \/ GraphStep
    \/ Common

NextWired ==
    \/ GraphStepWired
    \/ Common

Spec == Init /\ [][Next]_vars

SpecWired == Init /\ [][NextWired]_vars

TypeOK ==
    /\ pc \in {"idle", "graph", "ended", "save", "returned", "raised", "caught",
               "http500", "escaped", "route", "routed", "breaker", "adapter", "delay", "delayed",
               "bucket", "window", "limiter", "manager", "stream", "phase"}
    /\ is_complete \in BOOLEAN
    /\ hist.audits \in 0..(DefaultMaxRounds + MaxRoundsArg)

\* ------------------------------------------------ route_after_audit alone
\* route_after_audit applied to a state built directly, as test_graph.py does
RouteMaxRound == 5
RouteMaxRounds == 5

InitRoute ==
    /\ \E c \in BOOLEAN, r \in 0..RouteMaxRound, m \in 1..RouteMaxRounds :
         state = [GraphState(m, <<>>) EXCEPT !.consensus_reached = c,
                                             !.round_number = r,
                                             !.current_phase = "audit_complete"]
    /\ is_complete = FALSE
    /\ pc = "route"
    /\ node = "audit"
    /\ entry = "test"
    /\ previous_turns = <<>>
    /\ exc = NoneVal
    /\ stored = NoneVal
    /\ hist = Hist0
    /\ NoResilience
    /\ NoApi

RouteAfterAudit ==
    /\ pc = "route"
    /\ node' = create_graph("audit")[route_after_audit(state)]
    /\ pc' = "routed"
    /\ UNCHANGED <<state, is_complete, entry, previous_turns, exc, stored, hist>>
    /\ UNCHANGED rvars
    /\ UNCHANGED avars

NextRoute == RouteAfterAudit

SpecRoute == InitRoute /\ [][NextRoute]_vars

\* -------------------------------------------------------- circuit breaker
\* utils/resilience.py.  Times are whole ticks of one clock.
MaxThreshold == 3
MaxRecoveryTimeout == 2
MaxHalfOpenCalls == 2
MaxTime == 4
MaxFailureCount == 5

CircuitBreakerConfig(k, t, h) ==
    [failure_threshold |-> k, recovery_timeout |-> t, half_open_max_calls |-> h]

CircuitBreakerConfigs ==
    { CircuitBreakerConfig(k, t, h) : k \in 1..MaxThreshold,
                                      t \in 1..MaxRecoveryTimeout,
                                      h \in 1..MaxHalfOpenCalls }

CircuitBreaker(config) ==
    [config |-> config, state |-> "closed", failure_count |-> 0,
     last_failure_time |-> 0, half_open_calls |-> 0]

\* can_execute letting an OPEN breaker through before recovery_timeout
can_execute_eager(cb, t) ==
    CASE cb.state = "closed" -> [ok |-> TRUE, cb |-> cb]
      [] cb.state = "open" ->
            [ok |-> TRUE, cb |-> [cb EXCEPT !.state = "half_open", !.half_open_calls = 0]]
      [] cb.state = "half_open" ->
            IF cb.half_open_calls < cb.config.half_open_max_calls
            THEN [ok |-> TRUE, cb |-> [cb EXCEPT !.half_open_calls = @ + 1]]
            ELSE [ok |-> FALSE, cb |-> cb]

\* can_execute counting its HALF_OPEN calls with <= in place of <
can_execute_one_more(cb, t) ==
    CASE cb.state = "closed" -> [ok |-> TRUE, cb |-> cb]
      [] cb.state = "open" ->
            IF t - cb.last_failure_time >= cb.config.recovery_timeout
            THEN [ok |-> TRUE,
                  cb |-> [cb EXCEPT !.state = "half_open", !.half_open_calls = 0]]
            ELSE [ok |-> FALSE, cb |-> cb]
      [] cb.state = "half_open" ->
            IF cb.half_open_calls <= cb.config.half_open_max_calls
            THEN [ok |-> TRUE, cb |-> [cb EXCEPT !.half_open_calls = @ + 1]]
            ELSE [ok |-> FALSE, cb |-> cb]

\* can_execute denying for as long as the breaker is OPEN
can_execute_no_recovery(cb, t) ==
    CASE cb.state = "closed" -> [ok |-> TRUE, cb |-> cb]
      [] cb.state = "open" -> [ok |-> FALSE, cb |-> cb]
      [] cb.state = "half_open" ->
            IF cb.half_open_calls < cb.config.half_open_max_calls
            THEN [ok |-> TRUE, cb |-> [cb EXCEPT !.half_open_calls = @ + 1]]
            ELSE [ok |-> FALSE, cb |-> cb]

\* CircuitBreaker.can_execute at time t: the answer and the breaker after it
can_execute(cb, t) ==
    CASE cb.state = "closed" -> [ok |-> TRUE, cb |-> cb]
      [] cb.state = "open" ->
            IF t - cb.last_failure_time >= cb.config.recovery_timeout
            THEN [ok |-> TRUE,
                  cb |-> [cb EXCEPT !.state = "half_open", !.half_open_calls = 0]]
            ELSE [ok |-> FALSE, cb |-> cb]
      [] cb.state = "half_open" ->
            IF cb.half_open_calls < cb.config.half_open_max_calls
            THEN [ok |-> TRUE, cb |-> [cb EXCEPT !.half_open_calls = @ + 1]]
            ELSE [ok |-> FALSE, cb |-> cb]

\* record_success leaving a HALF_OPEN breaker as it is
record_success_no_close(cb) == [cb EXCEPT !.failure_count = 0]

\* CircuitBreaker.record_success
record_success(cb) ==
    [cb EXCEPT !.state = IF @ = "half_open" THEN "closed" ELSE @,
               !.failure_count = 0]

\* record_failure opening only above the threshold
record_failure_late(cb, t) ==
    LET n == cb.failure_count + 1 IN
    [cb EXCEPT !.failure_count = n,
               !.last_failure_time = t,
               !.state = IF @ = "half_open" THEN "open"
                         ELSE IF n > cb.config.failure_threshold THEN "open"
                         ELSE @]

\* CircuitBreaker.record_failure at time t
record_failure(cb, t) ==
    LET n == cb.failure_count + 1 IN
    [cb EXCEPT !.failure_count = n,
               !.last_failure_time = t,
               !.state = IF @ = "half_open" THEN "open"
                         ELSE IF n >= cb.config.failure_threshold THEN "open"
                         ELSE @]

\* the session variables of a specification that runs no session
NoSession(tag) ==
    /\ state = NoneVal
    /\ is_complete = FALSE
    /\ pc = tag
    /\ node = "none"
    /\ entry = "none"
    /\ previous_turns = <<>>
    /\ exc = NoneVal
    /\ stored = NoneVal
    /\ hist = Hist0

\* a breaker of any configuration, its methods called in any order
InitBreaker ==
    /\ NoSession("breaker")
    /\ \E c \in CircuitBreakerConfigs : circuit_breaker = CircuitBreaker(c)
    /\ adapter = NoneVal
    /\ now = 0
    /\ calls = NoneVal
    /\ rhist = [op |-> "init", ok |-> TRUE, before |-> "closed", at |-> 0,
                streak |-> 0, permitted |-> 0]
    /\ NoApi

\* cb.can_execute()
CanExecute ==
    /\ pc = "breaker"
    /\ LET r == can_execute(circuit_breaker, now) IN
       /\ circuit_breaker' = r.cb
       /\ rhist' = [rhist EXCEPT
                      !.op = "can_execute", !.ok = r.ok,
                      !.before = circuit_breaker.state, !.at = now,
                      !.permitted = IF ~r.ok THEN @
                                    ELSE IF circuit_breaker.state = "open" THEN 0
                                    ELSE IF circuit_breaker.state = "half_open"
                                    THEN @ + 1
                                    ELSE 0]
    /\ UNCHANGED <<adapter, now, calls>>
    /\ UNCHANGED vars
    /\ UNCHANGED avars

\* cb.record_success()
RecordSuccess ==
    /\ pc = "breaker"
    /\ circuit_breaker' = record_success(circuit_breaker)
    /\ rhist' = [rhist EXCEPT !.op = "record_success", !.ok = TRUE,
                              !.before = circuit_breaker.state, !.at = now,
                              !.streak = 0, !.permitted = 0]
    /\ UNCHANGED <<adapter, now, calls>>
    /\ UNCHANGED vars
    /\ UNCHANGED avars

\* cb.record_failure()
RecordFailure ==
    /\ pc = "breaker"
    /\ circuit_breaker.failure_count < MaxFailureCount
    /\ circuit_breaker' = record_failure(circuit_breaker, now)
    /\ rhist' = [rhist EXCEPT !.op = "record_failure", !.ok = TRUE,
                              !.before = circuit_breaker.state, !.at = now,
                              !.streak = @ + 1, !.permitted = 0]
    /\ UNCHANGED <<adapter, now, calls>>
    /\ UNCHANGED vars
    /\ UNCHANGED avars

\* time passes
Tick ==
    /\ now < MaxTime
    /\ now' = now + 1
    /\ UNCHANGED <<circuit_breaker, adapter, calls, rhist>>
    /\ UNCHANGED vars
    /\ UNCHANGED avars

NextBreaker ==
    \/ CanExecute
    \/ RecordSuccess
    \/ RecordFailure
    \/ Tick

SpecBreaker == InitBreaker /\ [][NextBreaker]_<<vars, rvars>>

\* ------------------------------------------------------- retry and backoff
MaxAttempts == 2
MaxChain == 2
JitterSteps == 1
FloatMax == 64

DelayDen == 4 * JitterSteps
JitterDraws == (0 - JitterSteps)..JitterSteps

RetryConfig(m, b, d, e, j) ==
    [max_attempts |-> m, base_delay |-> b, max_delay |-> d,
     exponential_base |-> e, jitter |-> j]

Min(x, y) == IF x <= y THEN x ELSE y
Max(x, y) == IF x >= y THEN x ELSE y

RECURSIVE Pow(_, _)
Pow(e, n) == IF n = 0 THEN 1 ELSE e * Pow(e, n - 1)

\* the least n with e^n > FloatMax, or 0 when there is none (e <= 1)
RECURSIVE OverflowAt(_, _, _)
OverflowAt(e, n, p) ==
    IF e <= 1 THEN 0
    ELSE IF p > FloatMax THEN n
    ELSE OverflowAt(e, n + 1, p * e)

\* `exponential_base ** attempt` on floats: OverflowError beyond the range
FloatPow(e, n) ==
    IF OverflowAt(e, 0, 1) # 0 /\ n >= OverflowAt(e, 0, 1)
    THEN [raised |-> "OverflowError"]
    ELSE [value |-> Pow(e, n)]

\* calculate_delay, in units of 1/DelayDen tick; u is the draw of
\* random.uniform(-jitter_range, jitter_range), in units of jitter_range/JitterSteps
calculate_delay(attempt, config, u) ==
    LET p == FloatPow(config.exponential_base, attempt) IN
    IF "raised" \in DOMAIN p THEN p
    ELSE LET delay == Min(config.base_delay * p.value, config.max_delay)
             jittered == IF config.jitter
                         THEN delay * DelayDen + u * delay
                         ELSE delay * DelayDen
         IN [value |-> Max(0, jittered)]

\* asyncio.sleep(delay) started at time t is over at the first tick >= t + delay
WakeTime(t, delay) == t + ((delay + DelayDen - 1) \div DelayDen)

\* the retry loop going one attempt too far
attempts_left_one_more(attempt, config) == attempt < config.max_attempts

\* `attempt < config.max_attempts - 1`: the loop has another attempt to make
attempts_left(attempt, config) == attempt < config.max_attempts - 1

\* ---------------------------------------------------------------- adapter
ModelNames == <<"primary", "fallback1", "fallback2", "fallback3">>

Adapter(n, rc) ==
    [model_name |-> ModelNames[1],
     fallback_models |-> SubSeq(ModelNames, 2, n),
     retry_config |-> rc]

get_model_chain(a) == <<a.model_name>> \o a.fallback_models

ApiError(model, attempt) == [type |-> "ApiError", model |-> model, attempt |-> attempt]
CircuitOpenError(cause) == [type |-> "CircuitOpenError", cause |-> cause]
MaxRetriesExceededError(message, last_exception) ==
    [type |-> "MaxRetriesExceededError", message |-> message,
     last_exception |-> last_exception]

\* two sessions with a call each on the same adapter class (as are the two
\* agent calls a phase makes at once when both agents use one provider)
Sessions == {1, 2}

\* no adapter call in progress
IdleCall ==
    [pc |-> "idle", i |-> 0, attempt |-> 0, wake |-> 0, tried |-> <<>>,
     invoked |-> <<>>, errors |-> <<>>, result |-> NoneVal, error |-> NoneVal]

RECURSIVE call_with_fallback(_, _, _, _, _)
RECURSIVE call_with_fallback_unchecked(_, _, _, _, _)
RECURSIVE fallback_except(_, _, _, _, _, _)
RECURSIVE fallback_except_first_only(_, _, _, _, _, _)

\* the except clause giving up after the primary model
fallback_except_first_only(a, c, i, e, cb, t) ==
    LET c1 == [c EXCEPT !.errors = Append(@, e)] IN
    [cb |-> cb,
     call |-> [c1 EXCEPT !.pc = "raised",
                         !.error = MaxRetriesExceededError("All models failed", e)]]

\* _call_with_fallback, its except clause: model i has failed with e
fallback_except(a, c, i, e, cb, t) ==
    LET c1 == [c EXCEPT !.errors = Append(@, e)] IN
    IF i = Len(get_model_chain(a))
    THEN [cb |-> cb,
          call |-> [c1 EXCEPT !.pc = "raised",
                              !.error = MaxRetriesExceededError("All models failed", e)]]
    ELSE call_with_fallback(a, c1, i + 1, cb, t)

\* the wrapper entered without asking the breaker
call_with_fallback_unchecked(a, c, i, cb, t) ==
    [cb |-> cb,
     call |-> [c EXCEPT !.pc = "invoking", !.i = i, !.attempt = 0,
                        !.tried = Append(@, get_model_chain(a)[i]),
                        !.invoked = Append(@, 1)]]

\* _call_with_fallback at model i: func(model) enters with_retry's
\* async_wrapper, which asks the breaker once and starts its first attempt
call_with_fallback(a, c, i, cb, t) ==
    LET r == can_execute(cb, t)
        c1 == [c EXCEPT !.i = i, !.attempt = 0,
                        !.tried = Append(@, get_model_chain(a)[i])]
    IN IF r.ok
       THEN [cb |-> r.cb,
             call |-> [c1 EXCEPT !.pc = "invoking", !.invoked = Append(@, 1)]]
       ELSE fallback_except(a, [c1 EXCEPT !.invoked = Append(@, 0)], i,
                            CircuitOpenError(NoneVal), r.cb, t)

\* the except clause going on to its backoff whatever the breaker's state
retry_except_no_state_check(a, c, e, cb0, t, u) ==
    LET cb == record_failure(cb0, t) IN
    IF attempts_left(c.attempt, a.retry_config)
    THEN [cb |-> cb,
          call |-> [c EXCEPT
                      !.pc = "sleeping",
                      !.wake = WakeTime(t, calculate_delay(c.attempt,
                                                           a.retry_config, u).value)]]
    ELSE fallback_except(a, c, c.i,
            MaxRetriesExceededError("Max retries exceeded", e), cb, t)

\* with_retry's except clause: the attempt of call c on model c.i raised e.
\* The failure is recorded; an OPEN breaker raises CircuitOpenError, else the
\* loop sleeps before its next attempt or gives the model up
retry_except(a, c, e, cb0, t, u) ==
    LET cb == record_failure(cb0, t) IN
    IF cb.state = "open"
    THEN fallback_except(a, c, c.i, CircuitOpenError(e), cb, t)
    ELSE IF attempts_left(c.attempt, a.retry_config)
    THEN [cb |-> cb,
          call |-> [c EXCEPT
                      !.pc = "sleeping",
                      !.wake = WakeTime(t, calculate_delay(c.attempt,
                                                           a.retry_config, u).value)]]
    ELSE fallback_except(a, c, c.i,
            MaxRetriesExceededError("Max retries exceeded", e), cb, t)

\* sessions calling one adapter class, whose breaker they share
InitAdapter ==
    /\ NoSession("adapter")
    /\ \E k \in 1..MaxThreshold :
          circuit_breaker = CircuitBreaker(
              CircuitBreakerConfig(k, MaxRecoveryTimeout, MaxHalfOpenCalls))
    /\ \E n \in 1..MaxChain, m \in 1..MaxAttempts :
          adapter = Adapter(n, RetryConfig(m, 1, 2, 2, TRUE))
    /\ now = 0
    /\ calls = [s \in Sessions |-> IdleCall]
    /\ rhist = [began |-> 0, since |-> 0, failers |-> {}, fast |-> 0]
    /\ NoApi

\* adapter.generate / generate_structured_with_usage is called
Generate(s) ==
    /\ calls[s].pc = "idle"
    /\ LET r == call_with_fallback(adapter, IdleCall, 1, circuit_breaker, now) IN
       /\ circuit_breaker' = r.cb
       /\ calls' = [calls EXCEPT ![s] = r.call]
       /\ rhist' = [rhist EXCEPT
                      !.began = IF r.call.pc = "invoking" THEN s ELSE 0,
                      !.fast = IF /\ circuit_breaker.state = "open"
                                  /\ now - circuit_breaker.last_failure_time
                                       < circuit_breaker.config.recovery_timeout
                               THEN s ELSE 0]
    /\ UNCHANGED <<adapter, now>>
    /\ UNCHANGED vars
    /\ UNCHANGED avars

\* the model call of the attempt returns
InvocationSucceeds(s) ==
    /\ calls[s].pc = "invoking"
    /\ circuit_breaker' = record_success(circuit_breaker)
    /\ calls' = [calls EXCEPT ![s].pc = "returned",
                              ![s].result =
                                 [model_used |-> get_model_chain(adapter)[calls[s].i],
                                  was_fallback |-> calls[s].i > 1]]
    /\ rhist' = [rhist EXCEPT !.began = 0, !.since = 0, !.failers = {}, !.fast = 0]
    /\ UNCHANGED <<adapter, now>>
    /\ UNCHANGED vars
    /\ UNCHANGED avars

\* the model call of the attempt raises: with_retry's except clause
InvocationFails(s) ==
    /\ calls[s].pc = "invoking"
    /\ circuit_breaker.failure_count < MaxFailureCount
    /\ LET c == calls[s]
           e == ApiError(get_model_chain(adapter)[c.i], c.attempt)
       IN \E u \in JitterDraws :
          LET r == retry_except(adapter, c, e, circuit_breaker, now, u)
          IN /\ circuit_breaker' = r.cb
             /\ calls' = [calls EXCEPT ![s] = r.call]
             /\ rhist' = [rhist EXCEPT
                            !.began = IF r.call.pc = "invoking" THEN s ELSE 0,
                            !.since = @ + 1,
                            !.failers = @ \cup {s},
                            !.fast = 0]
    /\ UNCHANGED <<adapter, now>>
    /\ UNCHANGED vars
    /\ UNCHANGED avars

\* asyncio.sleep(delay) returns: the loop starts its next attempt
SleepEnds(s) ==
    /\ calls[s].pc = "sleeping"
    /\ now >= calls[s].wake
    /\ calls' = [calls EXCEPT
                   ![s].pc = "invoking",
                   ![s].attempt = @ + 1,
                   ![s].invoked = [@ EXCEPT ![Len(@)] = @ + 1]]
    /\ rhist' = [rhist EXCEPT !.began = s, !.fast = 0]
    /\ UNCHANGED <<circuit_breaker, adapter, now>>
    /\ UNCHANGED vars
    /\ UNCHANGED avars

\* the caller has its result or its exception
CallOver(s) ==
    /\ calls[s].pc \in {"returned", "raised"}
    /\ calls' = [calls EXCEPT ![s] = IdleCall]
    /\ rhist' = [rhist EXCEPT !.began = 0, !.fast = 0]
    /\ UNCHANGED <<circuit_breaker, adapter, now>>
    /\ UNCHANGED vars
    /\ UNCHANGED avars

NextAdapter ==
    \/ \E s \in Sessions : Generate(s)
    \/ \E s \in Sessions : InvocationSucceeds(s)
    \/ \E s \in Sessions : InvocationFails(s)
    \/ \E s \in Sessions : SleepEnds(s)
    \/ \E s \in Sessions : CallOver(s)
    \/ Tick

SpecAdapter == InitAdapter /\ [][NextAdapter]_<<vars, rvars>>

\* ------------------------------------------------- calculate_delay alone
\* calculate_delay applied to a RetryConfig built directly, as
\* test_resilience.py does
MaxAttemptIndex == 8
MaxBaseDelay == 2
MaxDelayCap == 4
MaxExponentialBase == 3

InitDelay ==
    /\ NoSession("delay")
    /\ circuit_breaker = NoneVal
    /\ adapter = NoneVal
    /\ now = 0
    /\ calls = NoneVal
    /\ \E i \in 0..MaxAttemptIndex, b \in 0..MaxBaseDelay, d \in 0..MaxDelayCap,
          e \in 1..MaxExponentialBase, j \in BOOLEAN :
          rhist = [attempt |-> i, config |-> RetryConfig(3, b, d, e, j),
                   delay |-> NoneVal]
    /\ NoApi

CalculateDelay ==
    /\ pc = "delay"
    /\ pc' = "delayed"
    /\ \E u \in JitterDraws :
          rhist' = [rhist EXCEPT !.delay = calculate_delay(rhist.attempt, rhist.config, u)]
    /\ UNCHANGED <<state, is_complete, node, entry, previous_turns, exc, stored, hist>>
    /\ UNCHANGED <<circuit_breaker, adapter, now, calls>>
    /\ UNCHANGED avars

NextDelay == CalculateDelay

SpecDelay == InitDelay /\ [][NextDelay]_<<vars, rvars>>

\* ------------------------------------------------------------ token bucket
\* Token amounts are whole quanta of a token and times are whole ticks, so
\* that elapsed * fill_rate is exact.
MaxCapacity == 3
MaxFillRate == 2

\* TokenBucket(capacity, fill_rate) constructed at time t: __post_init__
TokenBucket(capacity, fill_rate, t) ==
    [capacity |-> capacity, fill_rate |-> fill_rate,
     tokens |-> capacity, last_update |-> t]

\* TokenBucket._refill
_refill(b, t) ==
    [b EXCEPT !.tokens = Min(b.capacity, b.tokens + (t - b.last_update) * b.fill_rate),
              !.last_update = t]

consume_unchecked(b, n, t) ==
    [ok |-> TRUE, bucket |-> [_refill(b, t) EXCEPT !.tokens = @ - n]]

\* TokenBucket.consume
consume(b, n, t) ==
    LET r == _refill(b, t) IN
    IF r.tokens >= n
    THEN [ok |-> TRUE, bucket |-> [r EXCEPT !.tokens = @ - n]]
    ELSE [ok |-> FALSE, bucket |-> r]

\* the variables of the layers that a harness of one API class leaves out
NoRun(tag) ==
    /\ NoSession(tag)
    /\ circuit_breaker = NoneVal
    /\ adapter = NoneVal
    /\ now = 0
    /\ calls = NoneVal
    /\ rhist = NoneVal

NoConsume == [n |-> 0, ok |-> FALSE, full |-> FALSE, at |-> 0]

\* a bucket of any capacity and fill rate, consumed from as time passes
InitBucket ==
    /\ NoRun("bucket")
    /\ \E c \in 1..MaxCapacity, f \in 0..MaxFillRate : bucket = TokenBucket(c, f, 0)
    /\ window = NoneVal
    /\ rate_limiter = NoneVal
    /\ sessions = NoneVal
    /\ storage = NoneVal
    /\ tasks = NoneVal
    /\ ahist = [last |-> NoConsume, prev |-> NoConsume, before |-> bucket]

\* bucket.consume(n)
Consume ==
    /\ pc = "bucket"
    /\ \E n \in 0..(MaxCapacity + 1) :
         LET r == consume(bucket, n, now) IN
         /\ bucket' = r.bucket
         /\ ahist' = [last |-> [n |-> n, ok |-> r.ok,
                                full |-> bucket.tokens = bucket.capacity, at |-> now],
                      prev |-> ahist.last,
                      before |-> bucket]
    /\ UNCHANGED <<window, rate_limiter, sessions, storage, tasks>>
    /\ UNCHANGED vars
    /\ UNCHANGED rvars

NextBucket ==
    \/ Consume
    \/ Tick

SpecBucket == InitBucket /\ [][NextBucket]_<<vars, rvars, avars>>

\* ---------------------------------------------------------- sliding window
MaxWindow == 2
MaxRequests == 2

\* SlidingWindowCounter(window_size, max_requests)
SlidingWindowCounter(window_size, max_requests) ==
    [window_size |-> window_size, max_requests |-> max_requests, timestamps |-> <<>>]

InWindow_inclusive(ts, t, w) == ts >= t - w

\* `ts > cutoff` with cutoff = now - window_size
InWindow(ts, t, w) == ts > t - w

\* the list comprehension of _clean_old
Recent(c, t) == SelectSeq(c.timestamps, LAMBDA ts : InWindow(ts, t, c.window_size))

\* SlidingWindowCounter._clean_old
_clean_old(c, t) == [c EXCEPT !.timestamps = Recent(c, t)]

\* SlidingWindowCounter.check_and_increment
check_and_increment(c, t) ==
    LET r == _clean_old(c, t) IN
    IF Len(r.timestamps) < r.max_requests
    THEN [ok |-> TRUE, counter |-> [r EXCEPT !.timestamps = Append(@, t)]]
    ELSE [ok |-> FALSE, counter |-> r]

\* a counter of any window and maximum, asked as time passes
InitWindow ==
    /\ NoRun("window")
    /\ bucket = NoneVal
    /\ \E w \in 1..MaxWindow, m \in 1..MaxRequests : window = SlidingWindowCounter(w, m)
    /\ rate_limiter = NoneVal
    /\ sessions = NoneVal
    /\ storage = NoneVal
    /\ tasks = NoneVal
    /\ ahist = [op |-> "init", ok |-> FALSE, before |-> window, at |-> 0,
                admitted |-> <<>>, rejected |-> FALSE]

\* counter.check_and_increment()
CheckAndIncrement ==
    /\ pc = "window"
    /\ LET r == check_and_increment(window, now) IN
       /\ window' = r.counter
       /\ ahist' = [op |-> "check_and_increment", ok |-> r.ok, before |-> window,
                    at |-> now,
                    admitted |-> IF r.ok THEN Append(ahist.admitted, now)
                                 ELSE ahist.admitted,
                    rejected |-> ahist.rejected \/ ~r.ok]
    /\ UNCHANGED <<bucket, rate_limiter, sessions, storage, tasks>>
    /\ UNCHANGED vars
    /\ UNCHANGED rvars

NextWindow ==
    \/ CheckAndIncrement
    \/ Tick

SpecWindow == InitWindow /\ [][NextWindow]_<<vars, rvars, avars>>

\* ------------------------------------------------------------ rate limiter
\* Times are seconds.  The buckets of a RateLimiter count tokens in sixtieths,
\* so that fill_rate = requests_per_minute / 60.0 tokens per second is
\* requests_per_minute quanta per second and every amount stays whole.  A
\* wait is a fraction num/den of seconds.
SecondsPerMinute == 60
MinuteWindow == 60
HourWindow == 3600
MaxPerMinute == 2
MaxPerHour == 2
MaxBurst == 2
MaxSleeps == 3

OneToken == SecondsPerMinute

Wait(num, den) == [num |-> num, den |-> den]
NoWait == Wait(0, 1)
WaitLess(a, b) == a.num * b.den < b.num * a.den
MaxWait(a, b) == IF WaitLess(a, b) THEN b ELSE a

\* TokenBucket.time_until_available: the wait, and the bucket it refilled
bucket_time_until_available(b, n, t) ==
    LET r == _refill(b, t) IN
    [wait |-> IF r.tokens >= n THEN NoWait ELSE Wait(n - r.tokens, r.fill_rate),
     bucket |-> r]

\* min(self.timestamps): the list is kept in the order of the appends
Oldest(c) == c.timestamps[1]

\* SlidingWindowCounter.time_until_available: the wait, and the counter it cleaned
window_time_until_available(c, t) ==
    LET r == _clean_old(c, t) IN
    [wait |-> IF Len(r.timestamps) < r.max_requests THEN NoWait
              ELSE Wait((Oldest(r) + r.window_size) - t, 1),
     counter |-> r]

RateLimitConfig(requests_per_minute, requests_per_hour, burst_size) ==
    [requests_per_minute |-> requests_per_minute,
     requests_per_hour |-> requests_per_hour,
     burst_size |-> burst_size]

\* the widest configuration of the range
WidestConfig == RateLimitConfig(MaxPerMinute, MaxPerHour, MaxBurst)

\* the configurations asked about: each tightens one gate of the widest one
RateLimitConfigs ==
    {RateLimitConfig(m, MaxPerHour, MaxBurst) : m \in 1..MaxPerMinute}
    \cup {RateLimitConfig(MaxPerMinute, h, MaxBurst) : h \in 1..MaxPerHour}
    \cup {RateLimitConfig(MaxPerMinute, MaxPerHour, b) : b \in 1..MaxBurst}

\* RateLimiter.__init__ at time t
RateLimiter(config, t) ==
    [config |-> config,
     bucket |-> TokenBucket(config.burst_size * OneToken, config.requests_per_minute, t),
     minute_window |-> SlidingWindowCounter(MinuteWindow, config.requests_per_minute),
     hour_window |-> SlidingWindowCounter(HourWindow, config.requests_per_hour)]

RateLimitExceededError(message, retry_after) ==
    [type |-> "RateLimitExceededError", message |-> message, retry_after |-> retry_after]

\* what a check hands back: True, False, or the exception it raised
Admitted(l) == [ok |-> TRUE, raised |-> NoneVal, gate |-> "none", limiter |-> l]
Rejected(l, gate, message, retry_after, raise_on_limit) ==
    [ok |-> FALSE,
     raised |-> IF raise_on_limit THEN RateLimitExceededError(message, retry_after)
                ELSE NoneVal,
     gate |-> gate,
     limiter |-> l]

\* RateLimiter.check giving back what it took when a later gate rejects
limiter_check_rollback(l, raise_on_limit, t) ==
    LET b == consume(l.bucket, OneToken, t)
        m == check_and_increment(l.minute_window, t)
    IN
    IF ~b.ok
    THEN Rejected(l, "bucket", "Burst rate limit exceeded",
                  bucket_time_until_available(l.bucket, OneToken, t).wait, raise_on_limit)
    ELSE IF ~m.ok
    THEN Rejected(l, "minute", "Rate limit exceeded: per minute",
                  window_time_until_available(l.minute_window, t).wait, raise_on_limit)
    ELSE LET h2 == check_and_increment(l.hour_window, t) IN
         IF ~h2.ok
         THEN Rejected(l, "hour", "Rate limit exceeded: per hour",
                       window_time_until_available(l.hour_window, t).wait, raise_on_limit)
         ELSE Admitted([l EXCEPT !.bucket = b.bucket, !.minute_window = m.counter,
                                 !.hour_window = h2.counter])

\* RateLimiter.check
limiter_check(l, raise_on_limit, t) ==
    LET b == consume(l.bucket, OneToken, t)
        l1 == [l EXCEPT !.bucket = b.bucket]
    IN
    IF ~b.ok
    THEN LET w == bucket_time_until_available(l1.bucket, OneToken, t) IN
         Rejected([l1 EXCEPT !.bucket = w.bucket], "bucket",
                  "Burst rate limit exceeded", w.wait, raise_on_limit)
    ELSE
    LET m == check_and_increment(l1.minute_window, t)
        l2 == [l1 EXCEPT !.minute_window = m.counter]
    IN
    IF ~m.ok
    THEN LET w == window_time_until_available(l2.minute_window, t) IN
         Rejected([l2 EXCEPT !.minute_window = w.counter], "minute",
                  "Rate limit exceeded: per minute", w.wait, raise_on_limit)
    ELSE
    LET h == check_and_increment(l2.hour_window, t)
        l3 == [l2 EXCEPT !.hour_window = h.counter]
    IN
    IF ~h.ok
    THEN LET w == window_time_until_available(l3.hour_window, t) IN
         Rejected([l3 EXCEPT !.hour_window = w.counter], "hour",
                  "Rate limit exceeded: per hour", w.wait, raise_on_limit)
    ELSE Admitted(l3)

\* SessionRateLimiter.__init__ at time t
SessionRateLimiter(per_session_config, global_config, t) ==
    [per_session_config |-> per_session_config,
     global_config |-> global_config,
     session_limiters |-> <<>>,
     global_limiter |-> RateLimiter(global_config, t)]

DictSet_every(d, k, v) == [x \in DOMAIN d \cup {k} |-> v]

\* del d[k]
DictDel(d, k) == [x \in DOMAIN d \ {k} |-> d[x]]

\* a dict with key k set to v
DictSet(d, k, v) == [x \in DOMAIN d \cup {k} |-> IF x = k THEN v ELSE d[x]]

\* SessionRateLimiter._get_session_limiter: the limiter, and the dict holding it
_get_session_limiter(srl, session_id, t) ==
    IF session_id \notin DOMAIN srl.session_limiters
    THEN DictSet(srl.session_limiters, session_id, RateLimiter(srl.per_session_config, t))
    ELSE srl.session_limiters

session_check_session_first(srl, session_id, raise_on_limit, t) ==
    LET d == _get_session_limiter(srl, session_id, t)
        s == limiter_check(d[session_id], raise_on_limit, t)
        srl1 == [srl EXCEPT !.session_limiters = DictSet(d, session_id, s.limiter)]
        g == limiter_check(srl.global_limiter, FALSE, t)
        wb == bucket_time_until_available(g.limiter.bucket, OneToken, t)
        wm == window_time_until_available(g.limiter.minute_window, t)
    IN
    IF ~s.ok THEN [ok |-> FALSE, raised |-> s.raised, by |-> "session", gate |-> s.gate,
                   rate_limiter |-> srl1]
    ELSE [ok |-> g.ok,
          raised |-> IF ~g.ok /\ raise_on_limit
                     THEN RateLimitExceededError("Global rate limit exceeded",
                                                 MaxWait(wb.wait, wm.wait))
                     ELSE NoneVal,
          by |-> IF g.ok THEN "none" ELSE "global", gate |-> g.gate,
          rate_limiter |-> [srl1 EXCEPT !.global_limiter = g.limiter]]

\* SessionRateLimiter.check
session_check(srl, session_id, raise_on_limit, t) ==
    LET g == limiter_check(srl.global_limiter, FALSE, t) IN
    IF ~g.ok
    THEN LET wb == bucket_time_until_available(g.limiter.bucket, OneToken, t)
             wm == window_time_until_available(g.limiter.minute_window, t)
             l == [g.limiter EXCEPT !.bucket = wb.bucket, !.minute_window = wm.counter]
         IN
         [ok |-> FALSE,
          raised |-> IF raise_on_limit
                     THEN RateLimitExceededError("Global rate limit exceeded",
                                                 MaxWait(wb.wait, wm.wait))
                     ELSE NoneVal,
          by |-> "global", gate |-> g.gate,
          rate_limiter |-> [srl EXCEPT !.global_limiter = l]]
    ELSE
    LET d == _get_session_limiter(srl, session_id, t)
        s == limiter_check(d[session_id], raise_on_limit, t)
    IN
    [ok |-> s.ok, raised |-> s.raised,
     by |-> IF s.ok THEN "none" ELSE "session", gate |-> s.gate,
     rate_limiter |-> [srl EXCEPT !.global_limiter = g.limiter,
                                  !.session_limiters = DictSet(d, session_id, s.limiter)]]

\* the limiter of routes.py asked by two sessions: its global or its
\* per-session configuration is any of the range, the other the widest
InitLimiter ==
    /\ NoRun("limiter")
    /\ bucket = NoneVal
    /\ window = NoneVal
    /\ \E c \in RateLimitConfigs :
          \/ rate_limiter = SessionRateLimiter(WidestConfig, c, 0)
          \/ rate_limiter = SessionRateLimiter(c, WidestConfig, 0)
    /\ sessions = NoneVal
    /\ storage = NoneVal
    /\ tasks = NoneVal
    /\ ahist = [op |-> "init", session_id |-> 0, ok |-> TRUE, raised |-> NoneVal,
                by |-> "none", gate |-> "none", before |-> rate_limiter, at |-> 0,
                sleeps |-> 0, limited |-> {}]

\* rate_limiter.check(session_id), as the entry points of routes.py call it
Check(session_id) ==
    /\ pc = "limiter"
    /\ LET r == session_check(rate_limiter, session_id, TRUE, now) IN
       /\ rate_limiter' = r.rate_limiter
       /\ ahist' = [ahist EXCEPT !.op = "check", !.session_id = session_id,
                                 !.ok = r.ok, !.raised = r.raised, !.by = r.by,
                                 !.gate = r.gate, !.before = rate_limiter,
                                 !.at = now,
                                 !.limited = IF r.by = "session"
                                             THEN @ \cup {session_id} ELSE @]
    /\ UNCHANGED <<bucket, window, sessions, storage, tasks>>
    /\ UNCHANGED vars
    /\ UNCHANGED rvars

\* time passes between two requests
Sleep ==
    /\ pc = "limiter"
    /\ ahist.sleeps < MaxSleeps
    /\ \E d \in {1, MinuteWindow, HourWindow} : now' = now + d
    /\ ahist' = [ahist EXCEPT !.op = "sleep", !.session_id = 0, !.ok = TRUE,
                              !.raised = NoneVal, !.by = "none", !.gate = "none",
                              !.before = rate_limiter, !.at = now',
                              !.sleeps = @ + 1]
    /\ UNCHANGED <<bucket, window, rate_limiter, sessions, storage, tasks>>
    /\ UNCHANGED vars
    /\ UNCHANGED <<circuit_breaker, adapter, calls, rhist>>

NextLimiter ==
    \/ \E session_id \in Sessions : Check(session_id)
    \/ Sleep

SpecLimiter == InitLimiter /\ [][NextLimiter]_<<vars, rvars, avars>>

\* ------------------------------------------------------ question validation
MIN_QUESTION_LENGTH == 10
MAX_QUESTION_LENGTH == 10000

\* questions are sequences of characters
EmptyQuestion == <<>>
ShortQuestion == <<"a", "p", "i">>
PaddedQuestion == <<" ", " ", " ", " ", "a", "p", "i", " ", " ", " ", " ">>
DesignQuestion == <<"d", "e", "s", "i", "g", "n", " ", "c", "a", "c", "h", "e">>
FollowUpQuestion == <<"h", "o", "w", " ", "t", "o", " ", "s", "c", "a", "l", "e">>

Questions == {EmptyQuestion, ShortQuestion, PaddedQuestion, DesignQuestion}

Whitespace == {" "}
Alphanumeric == {"a", "c", "d", "e", "g", "h", "i", "l", "n", "o", "p", "s", "t", "w"}

RECURSIVE lstrip(_)
lstrip(text) ==
    IF Len(text) > 0 /\ Head(text) \in Whitespace THEN lstrip(Tail(text)) ELSE text

RECURSIVE rstrip(_)
rstrip(text) ==
    IF Len(text) > 0 /\ text[Len(text)] \in Whitespace
    THEN rstrip(SubSeq(text, 1, Len(text) - 1))
    ELSE text

\* str.strip()
strip(text) == rstrip(lstrip(text))

\* validate_question with its default arguments
validate_question(text) ==
    IF Len(text) = 0 \/ Len(strip(text)) = 0
    THEN [is_valid |-> FALSE, error |-> "Question cannot be empty"]
    ELSE IF Len(strip(text)) < MIN_QUESTION_LENGTH
    THEN [is_valid |-> FALSE, error |-> "Question must be at least min_length characters"]
    ELSE IF Len(strip(text)) > MAX_QUESTION_LENGTH
    THEN [is_valid |-> FALSE, error |-> "Question must not exceed max_length characters"]
    ELSE IF \A i \in 1..Len(strip(text)) : strip(text)[i] \notin Alphanumeric
    THEN [is_valid |-> FALSE, error |-> "Question must contain alphanumeric characters"]
    ELSE [is_valid |-> TRUE, error |-> NoneVal]

\* --------------------------------------------------------- session manager
\* The graph run below run_session is taken by its stream: progress states,
\* then a terminal state (a DecisionRecord, an escalation or an error state)
\* or an exception, as the graph specifications above produce them once the
\* cross_critique edge resolves.
MaxTasks == 2
MaxContinues == 2
MaxRestarts == 1

\* the ArchitectureDecisionRecord that a run on a question converges to
ArchitectureDecisionRecord(question) == [title |-> question]

\* f"Previous design: {last_turn.adr.title}\nDecision: ..."
FollowUpContext(turns) ==
    IF Len(turns) = 0 THEN NoneVal ELSE [previous_design |-> turns[Len(turns)].adr.title]

\* GraphState(...) with the fields that run_session and run_graph_stream pass
SessionGraphState(session_id, question, system_context, model, turns, context) ==
    [session_id |-> session_id,
     user_question |-> question,
     system_context |-> system_context,
     architect_model |-> model,
     engineer_model |-> model,
     auditor_model |-> model,
     current_phase |-> "start",
     conversation_turns |-> turns,
     follow_up_context |-> context,
     is_follow_up |-> context # NoneVal,
     final_adr |-> NoneVal,
     error |-> NoneVal]

\* Session.__init__ at time t
Session(session_id, question, system_context, model, t) ==
    [session_id |-> session_id,
     question |-> question,
     system_context |-> system_context,
     architect_model |-> model,
     engineer_model |-> model,
     auditor_model |-> model,
     created_at |-> t,
     updated_at |-> t,
     state |-> NoneVal,
     is_complete |-> FALSE,
     is_waiting_for_input |-> FALSE]

\* Session.update_state at time t
update_state(session, s, t) ==
    [session EXCEPT !.state = s,
                    !.updated_at = t,
                    !.is_waiting_for_input = FALSE,
                    !.is_complete = UpdateStateComplete(s)]

\* datetime.isoformat / datetime.fromisoformat
isoformat(t) == [iso |-> t]
fromisoformat(text) == text.iso

\* state.model_dump(mode="json") / GraphState(**state_json)
model_dump(s) == [json |-> s]
model_validate(d) == d.json

\* the SessionData that _save_to_storage builds
SessionDataOf(session) ==
    [session_id |-> session.session_id,
     question |-> session.question,
     created_at |-> isoformat(session.created_at),
     updated_at |-> isoformat(session.updated_at),
     state_json |-> model_dump(session.state),
     conversation_turns |-> [i \in 1..Len(session.state.conversation_turns) |->
                                model_dump(session.state.conversation_turns[i])],
     is_complete |-> session.is_complete]

\* SessionManager._load_from_storage at time t
_load_from_storage(files, session_id, t) ==
    IF session_id \notin DOMAIN files THEN NoneVal
    ELSE LET data == files[session_id] IN
         [Session(data.session_id, data.question, NoneVal, NoneVal, t) EXCEPT
             !.created_at = fromisoformat(data.created_at),
             !.updated_at = fromisoformat(data.updated_at),
             !.is_complete = data.is_complete,
             !.state = model_validate(data.state_json)]

\* SessionManager.get_session: what it returns, and _sessions afterwards
get_session(mem, files, session_id, t) ==
    IF session_id \in DOMAIN mem
    THEN [session |-> mem[session_id], sessions |-> mem, loaded |-> FALSE]
    ELSE LET session == _load_from_storage(files, session_id, t) IN
         IF session # NoneVal
         THEN [session |-> session, sessions |-> DictSet(mem, session_id, session),
               loaded |-> TRUE]
         ELSE [session |-> NoneVal, sessions |-> mem, loaded |-> FALSE]

ValueError(message) == [type |-> "ValueError", message |-> message]

\* ConversationTurn(turn_id=..., question=..., adr=...) of run_session
NewTurn(turn_id, question, adr) == [turn_id |-> turn_id, question |-> question, adr |-> adr]

\* a run_session call: its locals, the arguments it gave run_graph_stream, and
\* whether its entry point has put the request through rate_limiter.check
Task(kind, session, previous, context) ==
    [kind |-> kind,
     admitted |-> kind \in {"design", "background"},
     session_id |-> session.session_id,
     pc |-> "stream",
     previous_turns |-> previous,
     follow_up_context |-> context,
     question |-> session.question,
     system_context |-> session.system_context,
     model |-> session.architect_model,
     final_state |-> NoneVal,
     progressed |-> FALSE]

\* run_session up to its first await inside the stream (handlers.py 202-240)
run_session_begin(mem, files, session_id, kind, t) ==
    LET g == get_session(mem, files, session_id, t) IN
    IF g.session = NoneVal
    THEN [raised |-> ValueError("Session not found"), sessions |-> g.sessions,
          task |-> NoneVal]
    ELSE
    LET session == g.session
        previous == IF session.state # NoneVal THEN session.state.conversation_turns
                    ELSE <<>>
        context == FollowUpContext(previous)
        initial_state == SessionGraphState(session_id, session.question,
                                           session.system_context, NoneVal,
                                           previous, context)
        started == update_state(session, initial_state, t)
    IN
    [raised |-> NoneVal,
     sessions |-> DictSet(g.sessions, session_id, started),
     task |-> Task(kind, started, previous, context)]

\* create_session putting the new session in place of the one in memory
create_session_replace(mem, question, system_context, session_id, model, t) ==
    [raised |-> NoneVal,
     sessions |-> DictSet(mem, session_id,
                          Session(session_id, question, system_context, model, t))]

\* SessionManager.create_session with a session id given
create_session(mem, question, system_context, session_id, model, t) ==
    IF session_id \in DOMAIN mem
    THEN [raised |-> ValueError("Session already exists"), sessions |-> mem]
    ELSE [raised |-> NoneVal,
          sessions |-> DictSet(mem, session_id,
                               Session(session_id, question, system_context, model, t))]

\* the states that the stream of a task yields
StreamStates(task) ==
    LET s == SessionGraphState(task.session_id, task.question, task.system_context,
                               task.model, <<>>, task.follow_up_context)
    IN
    [progress |-> [s EXCEPT !.current_phase = "ideation_complete"],
     complete |-> [s EXCEPT !.current_phase = "complete",
                            !.final_adr = ArchitectureDecisionRecord(task.question)],
     escalated |-> [s EXCEPT !.current_phase = "escalated", !.error = Err("escalation")],
     error |-> [s EXCEPT !.current_phase = "error", !.error = Err("ideation failed")]]

TerminalOutcomes == {"complete", "escalated", "error"}

\* where an exception of run_session ends, by the caller of run_session:
\* start_design answers 500, _run_session_background stores str(e) in the
\* session state, the WebSocket handler sends it, a caller of continue_session
\* gets it
ExceptionReaches(mem, files, task, e, t) ==
    IF task.kind = "background"
    THEN LET g == get_session(mem, files, task.session_id, t) IN
         IF g.session # NoneVal /\ g.session.state # NoneVal
         THEN DictSet(g.sessions, task.session_id,
                      [g.session EXCEPT !.state = [@ EXCEPT !.error = e]])
         ELSE g.sessions
    ELSE mem

Without(seq, i) == SubSeq(seq, 1, i - 1) \o SubSeq(seq, i + 1, Len(seq))

NoOp == [op |-> "none"]

\* a new process: nothing in memory, the session files as they are
InitManager ==
    /\ NoRun("manager")
    /\ bucket = NoneVal
    /\ window = NoneVal
    /\ rate_limiter = SessionRateLimiter(WidestConfig, WidestConfig, 0)
    /\ sessions = <<>>
    /\ storage = <<>>
    /\ tasks = <<>>
    /\ ahist = [last |-> NoOp, saved |-> <<>>, continues |-> 0, restarts |-> 0]

\* what the HTTP entry points do before they create a session
\* (routes.py 310-326 and 372-388)
Admit(v, c) ==
    IF ~v.is_valid THEN [code |-> 400, detail |-> v.error, rate_limiter |-> rate_limiter]
    ELSE IF ~c.ok THEN [code |-> 429, detail |-> c.raised, rate_limiter |-> c.rate_limiter]
    ELSE [code |-> 200, detail |-> NoneVal, rate_limiter |-> c.rate_limiter]

Admission(question, session_id) ==
    Admit(validate_question(question), session_check(rate_limiter, session_id, TRUE, now))

\* the answer of an entry point: its status code (the WebSocket handler
\* sends an error message where the HTTP routes answer 400 or 500)
Response(kind, code) == [op |-> "request", entry |-> kind, response |-> code]

ManagerFrame ==
    /\ UNCHANGED <<bucket, window>>
    /\ UNCHANGED vars
    /\ UNCHANGED rvars

\* POST /design: start_design, given the outcome a of its checks
start_design(session_id, question, system_context, a) ==
    /\ pc = "manager"
    /\ Len(tasks) < MaxTasks
    /\ LET c == create_session(sessions, question, system_context, session_id, NoneVal, now)
           r == run_session_begin(c.sessions, storage, session_id, "design", now)
       IN
       /\ rate_limiter' = a.rate_limiter
       /\ IF a.code # 200
          THEN /\ ahist' = [ahist EXCEPT !.last = Response("design", a.code)]
               /\ UNCHANGED <<sessions, tasks>>
          ELSE IF c.raised # NoneVal
          THEN /\ ahist' = [ahist EXCEPT !.last = Response("design", 500)]
               /\ UNCHANGED <<sessions, tasks>>
          ELSE /\ sessions' = r.sessions
               /\ tasks' = Append(tasks, r.task)
               /\ ahist' = [ahist EXCEPT !.last = Response("design", 200)]
    /\ UNCHANGED storage
    /\ ManagerFrame

PostDesign(session_id, question, system_context) ==
    start_design(session_id, question, system_context, Admission(question, session_id))

\* POST /design/start: start_design_async, given the outcome a of its checks,
\* answers and leaves the run to _run_session_background
start_design_async(session_id, question, system_context, model, a) ==
    /\ pc = "manager"
    /\ Len(tasks) < MaxTasks
    /\ LET c == create_session(sessions, question, system_context, session_id, model, now)
       IN
       /\ rate_limiter' = a.rate_limiter
       /\ IF a.code # 200
          THEN /\ ahist' = [ahist EXCEPT !.last = Response("background", a.code)]
               /\ UNCHANGED <<sessions, tasks>>
          ELSE IF c.raised # NoneVal
          THEN /\ ahist' = [ahist EXCEPT !.last = Response("background", 500)]
               /\ UNCHANGED <<sessions, tasks>>
          ELSE /\ sessions' = c.sessions
               /\ tasks' = Append(tasks,
                     [Task("background", c.sessions[session_id], <<>>, NoneVal)
                         EXCEPT !.pc = "scheduled"])
               /\ ahist' = [ahist EXCEPT !.last = Response("background", 200)]
    /\ UNCHANGED storage
    /\ ManagerFrame

PostDesignStart(session_id, question, system_context, model) ==
    start_design_async(session_id, question, system_context, model,
                       Admission(question, session_id))

\* _run_session_background starts: run_session up to the stream
BackgroundStarts(i) ==
    /\ pc = "manager"
    /\ tasks[i].pc = "scheduled"
    /\ LET r == run_session_begin(sessions, storage, tasks[i].session_id, "background", now) IN
       IF r.raised # NoneVal
       THEN /\ sessions' = ExceptionReaches(r.sessions, storage, tasks[i], r.raised, now)
            /\ tasks' = Without(tasks, i)
            /\ ahist' = [ahist EXCEPT !.last =
                           [op |-> "run_session", kind |-> "background",
                            session_id |-> tasks[i].session_id,
                            raised |-> r.raised, save_failed |-> FALSE]]
       ELSE /\ sessions' = r.sessions
            /\ tasks' = [tasks EXCEPT ![i] = r.task]
            /\ ahist' = [ahist EXCEPT !.last = NoOp]
    /\ UNCHANGED <<rate_limiter, storage>>
    /\ ManagerFrame

\* WebSocket message {"action": "start", ...}
WebSocketStart(session_id, question, system_context) ==
    /\ pc = "manager"
    /\ Len(tasks) < MaxTasks
    /\ LET c == create_session(sessions, question, system_context, session_id, NoneVal, now)
           r == run_session_begin(c.sessions, storage, session_id, "ws", now)
       IN
       IF Len(question) = 0
       THEN /\ ahist' = [ahist EXCEPT !.last = Response("ws", 400)]
            /\ UNCHANGED <<sessions, tasks>>
       ELSE IF c.raised # NoneVal
       THEN /\ ahist' = [ahist EXCEPT !.last = Response("ws", 500)]
            /\ UNCHANGED <<sessions, tasks>>
       ELSE /\ sessions' = r.sessions
            /\ tasks' = Append(tasks, r.task)
            /\ ahist' = [ahist EXCEPT !.last = Response("ws", 200)]
    /\ UNCHANGED <<rate_limiter, storage>>
    /\ ManagerFrame

\* SessionManager.continue_session up to the stream of its run
ContinueSession(session_id, follow_up_question) ==
    /\ pc = "manager"
    /\ Len(tasks) < MaxTasks
    /\ ahist.continues < MaxContinues
    /\ LET g == get_session(sessions, storage, session_id, now)
           session == g.session
           raised ==
              IF session = NoneVal THEN ValueError("Session not found")
              ELSE IF ~session.is_complete THEN ValueError("Session is not complete yet")
              ELSE IF session.state = NoneVal \/ session.state.final_adr = NoneVal
              THEN ValueError("Session has no result to follow up on")
              ELSE NoneVal
           asked == [session EXCEPT !.question = follow_up_question,
                                    !.is_complete = FALSE,
                                    !.updated_at = now]
           r == run_session_begin(DictSet(g.sessions, session_id, asked), storage,
                                  session_id, "continue", now)
           call == [op |-> "continue_session", session_id |-> session_id,
                    raised |-> raised, before |-> session,
                    in_flight |-> \E i \in 1..Len(tasks) : tasks[i].session_id = session_id]
       IN
       IF raised # NoneVal
       THEN /\ sessions' = g.sessions
            /\ tasks' = tasks
            /\ ahist' = [ahist EXCEPT !.last = call]
       ELSE /\ sessions' = r.sessions
            /\ tasks' = Append(tasks, r.task)
            /\ ahist' = [ahist EXCEPT !.last = call, !.continues = @ + 1]
    /\ UNCHANGED <<rate_limiter, storage>>
    /\ ManagerFrame

\* the stream yields a state: the loop body of run_session (handlers.py 241-242)
StreamYields(i, outcome) ==
    /\ pc = "manager"
    /\ tasks[i].pc = "stream"
    /\ outcome = "progress" => ~tasks[i].progressed
    /\ tasks[i].session_id \in DOMAIN sessions
    /\ LET state_update == StreamStates(tasks[i])[outcome] IN
       /\ sessions' = [sessions EXCEPT ![tasks[i].session_id] =
                          update_state(@, state_update, now)]
       /\ tasks' = [tasks EXCEPT ![i] =
                       [@ EXCEPT !.final_state = state_update,
                                 !.progressed = TRUE,
                                 !.pc = IF outcome \in TerminalOutcomes THEN "last"
                                        ELSE "stream"]]
    /\ ahist' = [ahist EXCEPT !.last = NoOp]
    /\ UNCHANGED <<rate_limiter, storage>>
    /\ ManagerFrame

\* a node raises: the exception leaves the stream and run_session
StreamFails(i) ==
    /\ pc = "manager"
    /\ tasks[i].pc = "stream"
    /\ sessions' = ExceptionReaches(sessions, storage, tasks[i], Err("agent call failed"), now)
    /\ tasks' = Without(tasks, i)
    /\ ahist' = [ahist EXCEPT !.last =
                   [op |-> "run_session", kind |-> tasks[i].kind,
                    session_id |-> tasks[i].session_id,
                    raised |-> Err("agent call failed"), save_failed |-> FALSE,
                    previous_turns |-> tasks[i].previous_turns,
                    final_adr |-> NoneVal, terminal |-> NoneVal]]
    /\ UNCHANGED <<rate_limiter, storage>>
    /\ ManagerFrame

\* the stream is exhausted: run_session from its loop to its return
\* (handlers.py 246-267); the write of the session file succeeds or fails
RunSessionEnds(i, written) ==
    /\ pc = "manager"
    /\ tasks[i].pc = "last"
    /\ tasks[i].session_id \in DOMAIN sessions
    /\ LET task == tasks[i]
           session == sessions[task.session_id]
           final_state ==
              IF task.final_state.final_adr # NoneVal
              THEN [task.final_state EXCEPT !.conversation_turns =
                       task.previous_turns
                       \o <<NewTurn(Len(task.previous_turns) + 1, session.question,
                                    task.final_state.final_adr)>>]
              ELSE task.final_state
           finished == [update_state(session, final_state, now) EXCEPT !.is_complete = TRUE]
           e == Err("save failed")
           call == [op |-> "run_session", kind |-> task.kind,
                    session_id |-> task.session_id,
                    raised |-> IF written THEN NoneVal ELSE e,
                    save_failed |-> ~written,
                    previous_turns |-> task.previous_turns,
                    final_adr |-> task.final_state.final_adr,
                    terminal |-> finished]
       IN
       /\ tasks' = Without(tasks, i)
       /\ IF written
          THEN /\ sessions' = DictSet(sessions, task.session_id, finished)
               /\ storage' = DictSet(storage, task.session_id, SessionDataOf(finished))
               /\ ahist' = [ahist EXCEPT !.last = call,
                               !.saved = DictSet(@, task.session_id, finished)]
          ELSE /\ sessions' = ExceptionReaches(DictSet(sessions, task.session_id, finished),
                                               storage, task, e, now)
               /\ storage' = storage
               /\ ahist' = [ahist EXCEPT !.last = call]
    /\ UNCHANGED rate_limiter
    /\ ManagerFrame

\* session_manager.get_session(session_id), as the GET routes call it
GetSession(session_id) ==
    /\ pc = "manager"
    /\ LET g == get_session(sessions, storage, session_id, now) IN
       /\ sessions' = g.sessions
       /\ ahist' = [ahist EXCEPT !.last =
                      [op |-> "get_session", session_id |-> session_id,
                       result |-> g.session, loaded |-> g.loaded,
                       in_memory |-> session_id \in DOMAIN sessions,
                       stored |-> session_id \in DOMAIN storage,
                       before |-> IF session_id \in DOMAIN sessions
                                  THEN sessions[session_id] ELSE NoneVal]]
    /\ UNCHANGED <<rate_limiter, storage, tasks>>
    /\ ManagerFrame

\* the server restarts: memory is lost, the session files stay
Restart ==
    /\ pc = "manager"
    /\ ahist.restarts < MaxRestarts
    /\ sessions' = <<>>
    /\ tasks' = <<>>
    /\ rate_limiter' = SessionRateLimiter(WidestConfig, WidestConfig, now)
    /\ ahist' = [ahist EXCEPT !.last = NoOp, !.restarts = @ + 1]
    /\ UNCHANGED storage
    /\ ManagerFrame

\* the session every request of the model names
SessionIds == {"s1"}

\* a request comes with a system context and model overrides, or with neither
SystemContext == [description |-> "context"]
ModelOverride == [name |-> "gpt-4o"]
RequestOptions == {[system_context |-> NoneVal, model |-> NoneVal],
                   [system_context |-> SystemContext, model |-> ModelOverride]}

NextManager ==
    \/ \E id \in SessionIds, q \in Questions : PostDesign(id, q, NoneVal)
    \/ \E id \in SessionIds, q \in Questions, o \in RequestOptions :
          PostDesignStart(id, q, o.system_context, o.model)
    \/ \E i \in 1..Len(tasks) : BackgroundStarts(i)
    \/ \E id \in SessionIds, q \in Questions \ {PaddedQuestion} :
          WebSocketStart(id, q, NoneVal)
    \/ \E id \in SessionIds : ContinueSession(id, FollowUpQuestion)
    \/ \E i \in 1..Len(tasks), o \in {"progress"} \cup TerminalOutcomes : StreamYields(i, o)
    \/ \E i \in 1..Len(tasks) : StreamFails(i)
    \/ \E i \in 1..Len(tasks), written \in BOOLEAN : RunSessionEnds(i, written)
    \/ \E id \in SessionIds : GetSession(id)
    \/ Restart

SpecManager == InitManager /\ [][NextManager]_<<vars, rvars, avars>>

\* ------------------------------------------------------------- properties
\* the run has reached its caller: returned, or failed with an exception
RunOver == pc \in {"returned", "caught", "http500", "escaped"}

TerminalPhases == {"complete", "escalated", "error"}

PhaseEdges ==
    { <<"start", "ideation">>, <<"ideation", "cross_critique">>,
      <<"cross_critique", "refinement">>, <<"refinement", "cross_critique_2">>,
      <<"cross_critique_2", "audit">>, <<"audit", "convergence">>,
      <<"audit", "escalate">>, <<"audit", "ideation">> }

\* a node of the graph executes in this step
NodeExecutes == hist'.steps # hist.steps

\* C1: in a run with max_rounds = N where every agent call succeeds and no
\* audit reports consensus, IDEATION is never entered more than N times, and
\* the finished run has executed AUDIT exactly N times and ended in ESCALATE.
C1_RoundLoopEscalates ==
    (state # NoneVal /\ ~hist.call_failed /\ ~hist.consensus_seen) =>
        /\ hist.ideations <= state.max_rounds
        /\ RunOver => /\ hist.audits = state.max_rounds
                      /\ hist.last = "escalate"
                      /\ state.current_phase = "escalated"

C3_RouteAfterAudit ==
    pc = "routed" =>
        node = IF state.consensus_reached THEN "convergence"
               ELSE IF state.round_number >= state.max_rounds THEN "escalate"
               ELSE "ideation"

C3_Witness ==
    /\ pc = "routed"
    /\ state.consensus_reached
    /\ state.round_number >= state.max_rounds
    /\ node = "convergence"

\* C4: when a phase has raised, the finished run has the state in the ERROR
\* phase with the error field set, and the run returned to its caller
\* instead of raising.
C4_PhaseFailureIsErrorState ==
    (RunOver /\ hist.last_raised) =>
        /\ state.current_phase = "error"
        /\ state.error # NoneVal
        /\ pc = "returned"

\* C5: a run_session invocation that is over has left the session in a
\* terminal phase, complete and persisted.
C5_RunSessionCompletes ==
    (RunOver /\ entry \in SessionEntries) =>
        /\ state.current_phase \in TerminalPhases
        /\ is_complete
        /\ stored # NoneVal

C7_TerminalFieldsExclusiveImmutable ==
    [][(state # NoneVal /\ state' # NoneVal) =>
          /\ ~(state'.final_adr # NoneVal /\ state'.error # NoneVal)
          /\ state.final_adr # NoneVal => state'.final_adr = state.final_adr
          /\ state.error # NoneVal => state'.error = state.error]_vars

LatestArchitectCritique(s) == OrElse(s.architect_critique_2, s.architect_critique)
LatestEngineerCritique(s) == OrElse(s.engineer_critique_2, s.engineer_critique)

\* C10: consensus_level is the average agreement level of the two most
\* recent critiques (those of CROSS_CRITIQUE_2 when it ran), halved when
\* consensus_reached is false, and lies in [0, 1].
C10_ConsensusLevelFromLatestCritiques ==
    (state # NoneVal /\ state.final_adr # NoneVal) =>
        LET sum == LatestArchitectCritique(state).agreement_level
                   + LatestEngineerCritique(state).agreement_level
        IN /\ state.final_adr.consensus_level =
                 IF state.consensus_reached THEN 2 * sum ELSE sum
           /\ state.final_adr.consensus_level \in 0..LevelDen

RecoveryElapsed ==
    now - circuit_breaker.last_failure_time >= circuit_breaker.config.recovery_timeout

\* C12: a CLOSED breaker with failure_threshold = k stays CLOSED after fewer
\* than k consecutive record_failure calls and after any record_success
\* (failure_count back to 0), becomes OPEN on exactly the k-th consecutive
\* record_failure, and a can_execute made right after that returns false.
C12_OpensOnKthFailure ==
    [][/\ circuit_breaker.state = "closed" =>
             /\ rhist.streak < circuit_breaker.config.failure_threshold
             /\ RecordSuccess => /\ circuit_breaker'.state = "closed"
                                 /\ circuit_breaker'.failure_count = 0
             /\ RecordFailure =>
                   circuit_breaker'.state =
                      IF rhist'.streak = circuit_breaker.config.failure_threshold
                      THEN "open" ELSE "closed"
       /\ (/\ CanExecute
           /\ rhist.op = "record_failure" /\ rhist.before = "closed"
           /\ circuit_breaker.state = "open" /\ rhist.at = now) =>
             /\ ~rhist'.ok
             /\ circuit_breaker'.state = "open"]_<<vars, rvars>>

C12_Witness ==
    /\ pc = "breaker"
    /\ circuit_breaker.config.failure_threshold = 3
    /\ circuit_breaker.state = "open"
    /\ rhist.streak = 3
    /\ rhist.op = "can_execute" /\ ~rhist.ok
    /\ circuit_breaker.last_failure_time = now

\* C13: while the breaker is OPEN and now - last_failure_time <
\* recovery_timeout, can_execute returns false and the state stays OPEN; the
\* breaker leaves OPEN only for HALF_OPEN, only in a can_execute call, and
\* only when now - last_failure_time >= recovery_timeout.
C13_OpenUntilRecoveryTimeout ==
    [][circuit_breaker.state = "open" =>
          /\ (CanExecute /\ ~RecoveryElapsed) =>
                (~rhist'.ok /\ circuit_breaker'.state = "open")
          /\ circuit_breaker'.state # "open" =>
                /\ circuit_breaker'.state = "half_open"
                /\ CanExecute
                /\ RecoveryElapsed]_<<vars, rvars>>

C13_Witness ==
    /\ pc = "breaker"
    /\ circuit_breaker.state = "half_open"
    /\ rhist.op = "can_execute" /\ rhist.before = "open" /\ rhist.ok
    /\ circuit_breaker.config.recovery_timeout = 2
    /\ now - circuit_breaker.last_failure_time = 2

\* C14: in HALF_OPEN, record_success moves the breaker to CLOSED with
\* failure_count = 0, and one record_failure moves it to OPEN whatever
\* failure_count is against failure_threshold.
C14_HalfOpenOutcome ==
    [][circuit_breaker.state = "half_open" =>
          /\ RecordSuccess => /\ circuit_breaker'.state = "closed"
                              /\ circuit_breaker'.failure_count = 0
          /\ RecordFailure => circuit_breaker'.state = "open"]_<<vars, rvars>>

C14_Witness ==
    /\ pc = "breaker"
    /\ rhist.op = "record_failure" /\ rhist.before = "half_open"
    /\ circuit_breaker.state = "open"
    /\ circuit_breaker.failure_count < circuit_breaker.config.failure_threshold

C16_BreakerConsultedBeforeEveryAttempt ==
    (pc = "adapter" /\ rhist.began # 0) =>
        ~(circuit_breaker.state = "open" /\ ~RecoveryElapsed)

\* C17: the failures of calls from different sessions add up in the one
\* breaker they share, and a call started by any session while that breaker
\* is OPEN and recovery_timeout has not passed fails at once with
\* CircuitOpenError, for every model of the chain, without invoking a model.
C17_SharedBreakerFailsFast ==
    pc = "adapter" =>
        /\ circuit_breaker.failure_count = rhist.since
        /\ rhist.fast # 0 =>
              LET c == calls[rhist.fast] IN
              /\ c.pc = "raised"
              /\ rhist.began = 0
              /\ Len(c.errors) = Len(get_model_chain(adapter))
              /\ \A k \in 1..Len(c.errors) :
                    /\ c.errors[k] = CircuitOpenError(NoneVal)
                    /\ c.invoked[k] = 0
              /\ c.error.last_exception = CircuitOpenError(NoneVal)

C17_Witness ==
    /\ pc = "adapter"
    /\ rhist.fast # 0
    /\ calls[rhist.fast].pc = "raised"
    /\ circuit_breaker.state = "open"
    /\ rhist.failers = Sessions
    /\ circuit_breaker.failure_count = circuit_breaker.config.failure_threshold
    /\ circuit_breaker.config.failure_threshold >= 2

\* the with_retry calls a session's adapter call has made, one per model tried
WrapperCalls(c) == 1..Len(c.tried)

\* C18: a call wrapped by with_retry with max_attempts = m invokes the model
\* at most m times; it returns on its first success and invokes nothing
\* afterwards; when its m invocations have all failed and the breaker has
\* not opened it raises MaxRetriesExceededError carrying the last exception.
C18_RetryBound ==
    [][pc = "adapter" =>
        \A s \in Sessions :
          LET c == calls[s]
              m == adapter.retry_config.max_attempts
          IN /\ \A k \in WrapperCalls(c) : c.invoked[k] <= m
             /\ \A k \in 1..Len(c.errors) :
                   \/ c.errors[k].type = "CircuitOpenError"
                   \/ /\ c.invoked[k] = m
                      /\ c.errors[k] =
                           MaxRetriesExceededError("Max retries exceeded",
                                                   ApiError(c.tried[k], m - 1))
             /\ (/\ c.pc = "invoking" /\ c.attempt = m - 1
                 /\ Len(calls'[s].errors) > Len(c.errors)
                 /\ circuit_breaker'.state # "open") =>
                   calls'[s].errors[Len(c.errors) + 1] =
                      MaxRetriesExceededError("Max retries exceeded",
                                              ApiError(c.tried[Len(c.tried)], m - 1))
             /\ c.pc = "returned" =>
                   /\ Len(c.errors) = Len(c.tried) - 1
                   /\ c.invoked[Len(c.tried)] = c.attempt + 1
                   /\ calls'[s] \in {c, IdleCall}]_<<vars, rvars>>

C18_Witness ==
    /\ pc = "adapter"
    /\ adapter.retry_config.max_attempts = 2
    /\ \E s \in Sessions :
          /\ calls[s].pc = "returned"
          /\ calls[s].invoked = <<2, 2>>
          /\ calls[s].errors[1].type = "MaxRetriesExceededError"
          /\ calls[s].errors[1].last_exception = ApiError("primary", 1)

\* C20: the fallback loop tries the models of [primary, fallback1, ...] in
\* that order, goes to the next model only once the with_retry cycle of the
\* model before it has failed, gives every model its cycle before it gives
\* up, and then raises the all-models-failed error carrying the last
\* model's error; nothing else is raised to the adapter's caller.
C20_FallbackChainInOrder ==
    pc = "adapter" =>
      \A s \in Sessions :
        LET c == calls[s]
            chain == get_model_chain(adapter)
        IN /\ Len(c.tried) <= Len(chain)
           /\ \A k \in 1..Len(c.tried) : c.tried[k] = chain[k]
           /\ \A k \in 1..Len(c.errors) :
                 c.errors[k].type \in {"CircuitOpenError", "MaxRetriesExceededError"}
           /\ c.pc \in {"invoking", "sleeping", "returned"} =>
                 /\ Len(c.errors) = Len(c.tried) - 1
                 /\ c.error = NoneVal
           /\ c.pc = "returned" =>
                 c.result = [model_used |-> chain[Len(c.tried)],
                             was_fallback |-> Len(c.tried) > 1]
           /\ c.pc = "raised" =>
                 /\ c.tried = chain
                 /\ Len(c.errors) = Len(chain)
                 /\ c.result = NoneVal
                 /\ c.error = MaxRetriesExceededError("All models failed",
                                                      c.errors[Len(chain)])

C20_Witness ==
    /\ pc = "adapter"
    /\ Len(get_model_chain(adapter)) = 2
    /\ \E s \in Sessions :
          /\ calls[s].pc = "raised"
          /\ calls[s].tried = <<"primary", "fallback1">>
          /\ calls[s].errors[1].type = "MaxRetriesExceededError"
          /\ calls[s].errors[2] =
               MaxRetriesExceededError("Max retries exceeded",
                   ApiError("fallback1", adapter.retry_config.max_attempts - 1))

\* min(max_delay, base_delay * exponential_base^i), in units of 1/DelayDen
ExpectedDelay(i, config) ==
    DelayDen * Min(config.max_delay, config.base_delay * Pow(config.exponential_base, i))

\* C19: for every attempt index i >= 0 and every RetryConfig,
\* calculate_delay(i) is min(max_delay, base_delay * exponential_base^i)
\* exactly when jitter is off; with jitter on it is within 25% of that value
\* and never negative.
C19_CalculateDelay ==
    pc = "delayed" =>
        LET expected == ExpectedDelay(rhist.attempt, rhist.config) IN
        /\ "value" \in DOMAIN rhist.delay
        /\ ~rhist.config.jitter => rhist.delay.value = expected
        /\ rhist.config.jitter =>
              /\ 4 * (rhist.delay.value - expected) <= expected
              /\ 4 * (expected - rhist.delay.value) <= expected
        /\ rhist.delay.value >= 0

\* the token count that the lazy refill of a consume at ahist.last.at finds
Refilled ==
    LET b == ahist.before IN
    Min(b.capacity, b.tokens + (ahist.last.at - b.last_update) * b.fill_rate)

\* C21: consume(n) refills lazily (elapsed time * fill_rate, capped at the
\* capacity) and then succeeds, deducting exactly n, if and only if the
\* refilled count is at least n; a failing consume deducts nothing; the token
\* count stays within [0, capacity]; a full bucket of capacity c admits
\* consume(c) once and rejects a consume(1) that follows immediately.
C21_ConsumeContract ==
    /\ bucket.tokens >= 0
    /\ bucket.tokens <= bucket.capacity
    /\ ahist.last # NoConsume =>
         /\ ahist.last.ok <=> Refilled >= ahist.last.n
         /\ bucket.tokens = IF ahist.last.ok THEN Refilled - ahist.last.n ELSE Refilled
         /\ bucket.last_update = ahist.last.at
    /\ ( /\ ahist.prev.full
         /\ ahist.prev.n = bucket.capacity
         /\ ahist.last.at = ahist.prev.at
         /\ ahist.last.n >= 1 ) =>
         (ahist.prev.ok /\ ~ahist.last.ok)

\* consume(c) on a full bucket succeeded and the consume(1) right after it failed
C21_Witness ==
    /\ ahist.prev.full
    /\ ahist.prev.n = bucket.capacity
    /\ ahist.prev.ok
    /\ ahist.last.at = ahist.prev.at
    /\ ahist.last.n = 1
    /\ ~ahist.last.ok
    /\ bucket.tokens = 0
    /\ now > 0

\* the recorded timestamps of the counter before the call that lie within the
\* last window_size seconds of the call
RecordedInWindow ==
    {i \in 1..Len(ahist.before.timestamps) :
        ahist.before.timestamps[i] > ahist.at - window.window_size}

\* the calls admitted in the window_size seconds that end at time t
AdmittedWithin(t) ==
    {i \in 1..Len(ahist.admitted) :
        ahist.admitted[i] > t - window.window_size /\ ahist.admitted[i] <= t}

\* C22: check_and_increment succeeds if and only if fewer than max_requests
\* recorded timestamps lie within the last window_size seconds, so at most
\* max_requests calls succeed within any interval of that length; a rejected
\* call records no timestamp; once the oldest recorded timestamp has left the
\* window a call succeeds again.
C22_SlidingWindow ==
    /\ ahist.op = "check_and_increment" =>
         /\ ahist.ok <=> Cardinality(RecordedInWindow) < window.max_requests
         /\ ~ahist.ok => window.timestamps = Recent(ahist.before, ahist.at)
         /\ ahist.ok => window.timestamps = Append(Recent(ahist.before, ahist.at), ahist.at)
         /\ ( /\ Len(ahist.before.timestamps) > 0
              /\ ahist.before.timestamps[1] <= ahist.at - window.window_size ) => ahist.ok
    /\ \A t \in 0..now : Cardinality(AdmittedWithin(t)) <= window.max_requests
    /\ Len(window.timestamps) <= window.max_requests

\* a full window rejected a call, and a later call succeeded once the oldest
\* timestamp had left the window
C22_Witness ==
    /\ ahist.op = "check_and_increment"
    /\ ahist.ok
    /\ Len(ahist.before.timestamps) = window.max_requests
    /\ window.max_requests = 2
    /\ ahist.before.timestamps[1] <= ahist.at - window.window_size
    /\ ahist.before.timestamps[2] > ahist.at - window.window_size
    /\ Len(ahist.admitted) > 2
    /\ ahist.rejected

\* the limiter whose gate rejected the last request, after that request
RejectingLimiter ==
    IF ahist.by = "global" THEN rate_limiter.global_limiter
    ELSE rate_limiter.session_limiters[ahist.session_id]

\* the wait that a gate of the rejecting limiter implies at the rejection
GateWait(gate) ==
    LET l == RejectingLimiter IN
    CASE gate = "bucket" -> bucket_time_until_available(l.bucket, OneToken, ahist.at).wait
      [] gate = "minute" -> window_time_until_available(l.minute_window, ahist.at).wait
      [] gate = "hour" -> window_time_until_available(l.hour_window, ahist.at).wait

\* C23: when an admission check rejects a request, the retry_after of its
\* RateLimitExceededError is the maximum of the waits implied by the gates of
\* the limiter (token bucket, 60 s window, 3600 s window): it is strictly
\* positive and never smaller than the wait of the gate that rejected.
C23_RetryAfterIsMaxWait ==
    ahist.raised # NoneVal =>
        /\ ahist.raised.retry_after =
              MaxWait(GateWait("bucket"), MaxWait(GateWait("minute"), GateWait("hour")))
        /\ WaitLess(NoWait, ahist.raised.retry_after)
        /\ ~WaitLess(ahist.raised.retry_after, GateWait(ahist.gate))

\* a limiter has no capacity at time t: one of its gates implies a wait
Exhausted(l, t) ==
    \/ WaitLess(NoWait, bucket_time_until_available(l.bucket, OneToken, t).wait)
    \/ WaitLess(NoWait, window_time_until_available(l.minute_window, t).wait)
    \/ WaitLess(NoWait, window_time_until_available(l.hour_window, t).wait)

\* the last request found the global limit exhausted
GlobalExhausted == Exhausted(ahist.before.global_limiter, ahist.at)

\* a gate that admitted the request at time t took it into account
Consumed(l0, l1, t) ==
    /\ l1.bucket.last_update = t
    /\ l1.bucket.tokens < Min(l0.bucket.capacity,
                              l0.bucket.tokens + (t - l0.bucket.last_update)
                                                 * l0.bucket.fill_rate)

\* C24: SessionRateLimiter.check consults the shared global limiter before
\* the per-session limiter on every request; once the global limit is
\* exhausted a request of any session, a new one with untouched per-session
\* capacity included, is rejected, and no per-session limiter is created or
\* consumed for it.
C24_GlobalLimiterFirst ==
    ahist.op = "check" =>
        /\ GlobalExhausted =>
              /\ ~ahist.ok
              /\ ahist.by = "global"
              /\ rate_limiter.session_limiters = ahist.before.session_limiters
        /\ ~GlobalExhausted =>
              /\ Consumed(ahist.before.global_limiter, rate_limiter.global_limiter,
                          ahist.at)
              /\ ahist.session_id \in DOMAIN rate_limiter.session_limiters
        /\ ahist.by = "session" => ~GlobalExhausted

\* a session that never asked before is rejected by the exhausted global
\* limiter and gets no limiter of its own
C24_Witness ==
    /\ ahist.op = "check"
    /\ GlobalExhausted
    /\ ~ahist.ok
    /\ ahist.session_id \notin DOMAIN rate_limiter.session_limiters
    /\ DOMAIN rate_limiter.session_limiters # {}

\* the per-session limiter that the last request met: its own, or a new one
OwnLimiter ==
    IF ahist.session_id \in DOMAIN ahist.before.session_limiters
    THEN ahist.before.session_limiters[ahist.session_id]
    ELSE RateLimiter(ahist.before.per_session_config, ahist.at)

\* C25: per-session limits are independent: a request of one session never
\* changes the per-session limiter of another, so a session is admitted
\* whenever its own limiter and the global limiter have capacity, also after
\* another session has exhausted its per-session limit and was rejected.
C25_SessionLimitsIndependent ==
    ahist.op = "check" =>
        /\ \A other \in DOMAIN ahist.before.session_limiters :
              other # ahist.session_id =>
                 /\ other \in DOMAIN rate_limiter.session_limiters
                 /\ rate_limiter.session_limiters[other]
                       = ahist.before.session_limiters[other]
        /\ DOMAIN rate_limiter.session_limiters
              \subseteq DOMAIN ahist.before.session_limiters \cup {ahist.session_id}
        /\ ahist.ok <=> (~GlobalExhausted /\ ~Exhausted(OwnLimiter, ahist.at))

\* session 1 was rejected by its per-session limit, which is still exhausted,
\* and session 2 is admitted
C25_Witness ==
    /\ ahist.op = "check"
    /\ ahist.session_id = 2
    /\ ahist.ok
    /\ 1 \in ahist.limited
    /\ Exhausted(rate_limiter.session_limiters[1], ahist.at)

\* C26: an agent call is issued only for a request that passed question
\* validation (trimmed length at least the minimum) and the admission check:
\* through POST /design, POST /design/start and the WebSocket "start" message
\* no run streams for, and no session holds, a too-short question, and every
\* run that streams was started by a request that rate_limiter.check admitted.
C26_AgentCallsOnlyAfterAdmission ==
    /\ \A i \in 1..Len(tasks) :
          (tasks[i].kind # "continue" /\ tasks[i].pc \in {"stream", "last"}) =>
             /\ Len(strip(tasks[i].question)) >= MIN_QUESTION_LENGTH
             /\ tasks[i].admitted
    /\ \A id \in DOMAIN sessions :
          Len(strip(sessions[id].question)) >= MIN_QUESTION_LENGTH

\* the last call was continue_session on a session that is missing, not
\* complete, completed without a DecisionRecord, or has a run in flight
ContinueMustRaise ==
    LET c == ahist.last IN
    \/ c.before = NoneVal
    \/ ~c.before.is_complete
    \/ c.before.state = NoneVal
    \/ c.before.state.final_adr = NoneVal
    \/ c.in_flight

\* C27: continue_session(id, q) raises, and leaves the session's question,
\* is_complete flag, state and turn history unchanged, whenever the session
\* does not exist, is not complete (a run of it in flight included), or
\* completed without a DecisionRecord.
C27_ContinueRequiresDecisionRecord ==
    (ahist.last.op = "continue_session" /\ ContinueMustRaise) =>
        /\ ahist.last.raised # NoneVal
        /\ IF ahist.last.before = NoneVal
           THEN ahist.last.session_id \notin DOMAIN sessions
           ELSE sessions[ahist.last.session_id] = ahist.last.before

RECURSIVE IsPrefix(_, _)
\* the sequence p is the beginning of the sequence q
IsPrefix(p, q) ==
    \/ Len(p) = 0
    \/ /\ Len(q) > 0
       /\ Head(p) = Head(q)
       /\ IsPrefix(Tail(p), Tail(q))

\* C28: the ConversationTurn history of a session is append-only across
\* runs: when the run of a continue_session finishes, the turns that existed
\* before are a prefix of conversation_turns whatever the outcome, and exactly
\* one turn, with turn_id = previous count + 1, is appended when, and only
\* when, the follow-up produced a DecisionRecord.
C28_TurnsAppendOnly ==
    (/\ ahist.last.op = "run_session"
     /\ ahist.last.kind = "continue"
     /\ ahist.last.session_id \in DOMAIN sessions) =>
        LET before == ahist.last.previous_turns
            after == sessions[ahist.last.session_id].state.conversation_turns
        IN
        /\ IsPrefix(before, after)
        /\ IF ahist.last.final_adr # NoneVal
           THEN /\ Len(after) = Len(before) + 1
                /\ after[Len(after)].turn_id = Len(before) + 1
                /\ after[Len(after)].adr = ahist.last.final_adr
           ELSE after = before

\* C29: get_session returns the in-memory session when there is one,
\* otherwise loads the persisted record, caches it and returns it, and returns
\* nothing when neither exists; a session obtained through such a reload has
\* every saved Session field as it was when the session was persisted (id,
\* question, model overrides and context, timestamps, state with its turns,
\* completion flag).
C29_GetSessionReloads ==
    ahist.last.op = "get_session" =>
        LET g == ahist.last
            id == g.session_id
        IN
        /\ g.in_memory => (g.result = g.before /\ ~g.loaded)
        /\ (~g.in_memory /\ ~g.stored) => (g.result = NoneVal /\ id \notin DOMAIN sessions)
        /\ (~g.in_memory /\ g.stored) =>
              /\ g.loaded
              /\ id \in DOMAIN sessions
              /\ sessions[id] = g.result
              /\ g.result = ahist.saved[id]

\* C30: when the write of the session record fails as run_session persists
\* a finished run, the failure is only logged: no exception propagates to the
\* caller of run_session, and the in-memory session keeps the terminal state
\* of the run (is_complete, DecisionRecord or error payload) unchanged.
C30_SaveFailureIsContained ==
    (ahist.last.op = "run_session" /\ ahist.last.save_failed) =>
        /\ ahist.last.raised = NoneVal
        /\ ahist.last.session_id \in DOMAIN sessions
        /\ sessions[ahist.last.session_id] = ahist.last.terminal

\* ------------------------------------------- the merge of run_graph_stream
\* run_graph_stream keeps a dict current_state_data and merges into it the
\* dict that each node returned (graph.astream yields {node: update}); the
\* state it yields is GraphState(**current_state_data).  Dicts are functions
\* over their keys.
MaxUpdates == 2

\* current_state_data before the first update (graph.py 275-289)
InitialStateData ==
    [user_question |-> "question",
     max_rounds |-> DefaultMaxRounds,
     current_phase |-> "start",
     conversation_history |-> <<>>,
     is_follow_up |-> FALSE]

\* the values that the nodes return under the keys besides current_phase
UpdateValues ==
    [error |-> {Err("Ideation phase failed")},
     round_number |-> {1, 2},
     conversation_history |-> {<<>>, <<"architect:proposal">>,
                               <<"architect:proposal", "engineer:proposal">>}]

RECURSIVE UpdatesOver(_)
\* the dicts with a current_phase and any of the given keys
UpdatesOver(keys) ==
    IF keys = {} THEN {[current_phase |-> p] : p \in {"ideation_complete", "error"}}
    ELSE LET k == CHOOSE x \in keys : TRUE
             rest == UpdatesOver(keys \ {k})
         IN rest \cup {DictSet(u, k, v) : u \in rest, v \in UpdateValues[k]}

\* the dicts a node may return
StateUpdates == UpdatesOver(DOMAIN UpdateValues)

\* dict.update for every key of the update
MergeUpdate_overwrite(current_state_data, state_update) ==
    [k \in DOMAIN current_state_data \cup DOMAIN state_update |->
        IF k \in DOMAIN state_update THEN state_update[k] ELSE current_state_data[k]]

\* the loop body of run_graph_stream for one dict update (graph.py 295-318)
MergeUpdate(current_state_data, state_update) ==
    [k \in DOMAIN current_state_data \cup DOMAIN state_update |->
        IF k = "conversation_history" /\ k \in DOMAIN state_update
        THEN current_state_data[k] \o state_update[k]
        ELSE IF k \in DOMAIN state_update THEN state_update[k]
        ELSE current_state_data[k]]

\* run_graph_stream before graph.astream yields its first update
InitStream ==
    /\ state = InitialStateData
    /\ is_complete = FALSE
    /\ pc = "stream"
    /\ node = "none"
    /\ entry = "direct"
    /\ previous_turns = <<>>
    /\ exc = NoneVal
    /\ stored = NoneVal
    /\ hist = [updates |-> 0, state_update |-> NoneVal, yielded |-> InitialStateData]
    /\ NoResilience
    /\ NoApi

\* graph.astream yields {node: state_update}: the update is merged and the
\* accumulated state is yielded
AstreamYields(state_update) ==
    /\ pc = "stream"
    /\ hist.updates < MaxUpdates
    /\ state' = MergeUpdate(state, state_update)
    /\ hist' = [updates |-> hist.updates + 1, state_update |-> state_update,
                yielded |-> state]
    /\ UNCHANGED <<is_complete, pc, node, entry, previous_turns, exc, stored>>
    /\ UNCHANGED rvars
    /\ UNCHANGED avars

NextStream == \E state_update \in StateUpdates : AstreamYields(state_update)

SpecStream == InitStream /\ [][NextStream]_<<vars, rvars, avars>>

\* C31: while a run streams, each update is merged into the accumulated
\* state so that conversation_history is only extended (the log of a yielded
\* state is the log of the state yielded before, followed by exactly the
\* messages of the update), every other field of the update replaces the old
\* value, and the fields absent from the update are unchanged.
C31_MergeAppendsHistory ==
    hist.updates > 0 =>
        LET before == hist.yielded
            update == hist.state_update
        IN
        /\ DOMAIN state = DOMAIN before \cup DOMAIN update
        /\ state.conversation_history =
              before.conversation_history \o
              (IF "conversation_history" \in DOMAIN update
               THEN update.conversation_history ELSE <<>>)
        /\ \A k \in DOMAIN update \ {"conversation_history"} : state[k] = update[k]
        /\ \A k \in DOMAIN before \ DOMAIN update : state[k] = before[k]

\* a second update that brings messages and a new field is merged into a
\* state that already holds messages
C31_Witness ==
    /\ hist.updates > 1
    /\ Len(hist.yielded.conversation_history) > 0
    /\ "conversation_history" \in DOMAIN hist.state_update
    /\ Len(hist.state_update.conversation_history) > 0
    /\ "error" \in DOMAIN hist.state_update
    /\ "error" \notin DOMAIN hist.yielded

\* ---------------------------------------- the agent calls of a phase
\* A two-agent node creates the two calls and awaits asyncio.gather on them;
\* each call is a task of its own that returns or raises in its own time.
\* The phases follow each other as the path maps of create_graph wire them;
\* after the audit the run goes another round or ends.
MaxPhaseRounds == 2

Roles == {"architect", "engineer"}
TwoAgentPhases == {"ideation", "cross_critique", "refinement", "cross_critique_2"}

\* the calls that a node hands to asyncio.gather
CallsOf(n, round) ==
    {[phase |-> n, round |-> round, role |-> r, status |-> "in_flight"] :
        r \in IF n \in TwoAgentPhases THEN Roles ELSE {"auditor"}}

\* asyncio.gather(..., return_exceptions=True) of ideation_node (nodes.py
\* 123-126); the other nodes call asyncio.gather with its default
return_exceptions(n) == n = "ideation"

\* the await on asyncio.gather: still pending, the results, or the first
\* exception
gather(own, collect) ==
    IF collect
    THEN IF \E c \in own : c.status = "in_flight" THEN "pending" ELSE "results"
    ELSE IF \E c \in own : c.status = "raised" THEN "raised"
    ELSE IF \E c \in own : c.status = "in_flight" THEN "pending"
    ELSE "results"

\* the calls of the node that is running
OwnCalls == {c \in calls : c.phase = node /\ c.round = hist.round}

\* the node after n when n returns normally
NextPhase(n) ==
    CASE n = "ideation" -> "cross_critique"
      [] n = "cross_critique" -> OnlyDestination("cross_critique")
      [] n = "refinement" -> OnlyDestination("refinement")
      [] n = "cross_critique_2" -> OnlyDestination("cross_critique_2")

InitPhase ==
    /\ state = NoneVal
    /\ is_complete = FALSE
    /\ pc = "phase"
    /\ node = "ideation"
    /\ entry = "direct"
    /\ previous_turns = <<>>
    /\ exc = NoneVal
    /\ stored = NoneVal
    /\ hist = [round |-> 1, left_in_flight |-> {}]
    /\ circuit_breaker = NoneVal
    /\ adapter = NoneVal
    /\ now = 0
    /\ calls = CallsOf("ideation", 1)
    /\ rhist = NoneVal
    /\ NoApi

PhaseFrame ==
    /\ UNCHANGED <<state, is_complete, entry, previous_turns, stored>>
    /\ UNCHANGED <<circuit_breaker, adapter, now, rhist>>
    /\ UNCHANGED avars

\* an agent call returns or raises
CallCompletes(c, status) ==
    /\ c \in calls
    /\ c.status = "in_flight"
    /\ calls' = (calls \ {c}) \cup {[c EXCEPT !.status = status]}
    /\ UNCHANGED <<pc, node, exc, hist>>
    /\ PhaseFrame

\* the calls that stay with the event loop when a node is over
StillInFlight == {c \in calls : c.status = "in_flight"}

\* the await on asyncio.gather is over and the node runs to its end: the next
\* node starts and issues its calls, or the run ends; after the audit the run
\* goes another round (again) or ends
NodeFinishes(again) ==
    /\ pc = "phase"
    /\ gather(OwnCalls, return_exceptions(node)) # "pending"
    /\ LET outcome == gather(OwnCalls, return_exceptions(node))
           \* ideation_node returns an error state when both calls failed
           error == node = "ideation" /\ \A c \in OwnCalls : c.status = "raised"
           \* cross_critique_node raises at its input check, before it issues
           \* a call, when ideation left one proposal out
           unmet == /\ node = "ideation" /\ ~error
                    /\ \E c \in OwnCalls : c.status = "raised"
           raises == outcome = "raised" \/ unmet
           over == \/ raises
                   \/ error
                   \/ node = "audit" /\ (~again \/ hist.round >= MaxPhaseRounds)
           next == IF node = "audit" THEN "ideation" ELSE NextPhase(node)
           round == IF node = "audit" THEN hist.round + 1 ELSE hist.round
       IN
       /\ pc' = IF raises THEN "raised" ELSE IF over THEN "ended" ELSE "phase"
       /\ exc' = IF outcome = "raised" THEN Err("agent call failed")
                 ELSE IF unmet THEN Err("Both proposals must exist for cross-critique")
                 ELSE exc
       /\ node' = IF over THEN node ELSE next
       /\ calls' = StillInFlight \cup (IF over THEN {} ELSE CallsOf(next, round))
       /\ hist' = [round |-> IF over THEN hist.round ELSE round,
                   left_in_flight |-> StillInFlight]
    /\ PhaseFrame

NextPhaseRun ==
    \/ \E c \in calls, status \in {"returned", "raised"} : CallCompletes(c, status)
    \/ \E again \in BOOLEAN : NodeFinishes(again)

SpecPhase == InitPhase /\ [][NextPhaseRun]_<<vars, rvars, avars>>

\* C32: a two-agent phase finishes, with success or failure, only after both
\* of its concurrently issued calls have returned or raised: no agent call of
\* a phase is in flight when the next phase starts or when the run is over.
C32_PhaseJoinsItsCalls ==
    \A c \in calls :
        c.status = "in_flight" => (pc = "phase" /\ c.phase = node /\ c.round = hist.round)

\* ------------------------------------------------ critiques come in pairs
CritiquePhases == {"cross_critique", "cross_critique_2"}

CritiquesPaired(s) ==
    /\ (s.architect_critique = NoneVal) <=> (s.engineer_critique = NoneVal)
    /\ (s.architect_critique_2 = NoneVal) <=> (s.engineer_critique_2 = NoneVal)

\* a critique node handed a failed call raises, whatever the other call gave
FailingCriticRaises(n, s) ==
    \A o \in NodeOutcomes(n) :
        (o[1] = Fail \/ o[2] = Fail) => RunNode(n, s, o).raised

AttemptFails(s) ==
    /\ calls[s].pc = "invoking"
    /\ calls'[s] # calls[s]
    /\ calls'[s].pc # "returned"

\* after model j of call c2 ended, the fallback loop is at the next model of
\* the chain, or was at its last model and raised
MovedOn(c2, j) ==
    IF j < Len(get_model_chain(adapter))
    THEN /\ Len(c2.tried) > j
         /\ c2.tried[j + 1] = get_model_chain(adapter)[j + 1]
    ELSE /\ c2.pc = "raised"
         /\ c2.error.type = "MaxRetriesExceededError"

\* C34: when the breaker denies execution, or the failure that with_retry
\* records leaves the breaker OPEN in the middle of the retry loop,
\* with_retry raises CircuitOpenError at once: that model is not invoked
\* (again), no backoff sleep is taken, and the fallback loop goes on to the
\* next model of the chain (or raises at the last one).
C34_CircuitOpenFailsFast ==
    /\ [](pc = "adapter" =>
            \A s \in Sessions : \A j \in 1..Len(calls[s].invoked) :
                calls[s].invoked[j] = 0 =>
                    /\ j <= Len(calls[s].errors)
                    /\ calls[s].errors[j] = CircuitOpenError(NoneVal)
                    /\ MovedOn(calls[s], j))
    /\ [][\A s \in Sessions :
            LET c == calls[s]
                c2 == calls'[s]
            IN /\ (AttemptFails(s) /\ record_failure(circuit_breaker, now).state = "open")
                    => /\ c2.pc # "sleeping"
                       /\ Len(c2.errors) >= c.i
                       /\ c2.errors[c.i].type = "CircuitOpenError"
                       /\ c2.invoked[c.i] = c.invoked[c.i]
                       /\ ~(c2.pc = "invoking" /\ c2.i = c.i)
                       /\ MovedOn(c2, c.i)
               \* a model that ended with CircuitOpenError is not invoked again
               /\ \A j \in 1..Len(c.errors) :
                     (c.errors[j].type = "CircuitOpenError" /\ Len(c2.errors) >= j)
                        => c2.invoked[j] = c.invoked[j]
         ]_<<vars, rvars>>

\* a call whose failed attempt opened the breaker with attempts left on the
\* model, and went on to the next model, where the breaker denied it
C34_Witness ==
    /\ pc = "adapter"
    /\ \E s \in Sessions :
          /\ Len(calls[s].errors) = 2
          /\ calls[s].errors[1].type = "CircuitOpenError"
          /\ calls[s].errors[1].cause # NoneVal
          /\ calls[s].invoked[1] < adapter.retry_config.max_attempts
          /\ calls[s].invoked[2] = 0
          /\ calls[s].errors[2] = CircuitOpenError(NoneVal)
          /\ calls[s].pc = "raised"

\* ------------------------------------------- dropping a session's limiter
\* cleanup_session dropping every session's limiter
cleanup_session_all(srl, session_id) ==
    IF session_id \in DOMAIN srl.session_limiters
    THEN [srl EXCEPT !.session_limiters = <<>>]
    ELSE srl

\* SessionRateLimiter.cleanup_session
cleanup_session(srl, session_id) ==
    IF session_id \in DOMAIN srl.session_limiters
    THEN [srl EXCEPT !.session_limiters = DictDel(@, session_id)]
    ELSE srl

\* the limiter of routes.py with any per-session configuration, asked by two
\* sessions and told to forget them
InitCleanup ==
    /\ NoRun("limiter")
    /\ bucket = NoneVal
    /\ window = NoneVal
    /\ \E c \in RateLimitConfigs : rate_limiter = SessionRateLimiter(c, WidestConfig, 0)
    /\ sessions = NoneVal
    /\ storage = NoneVal
    /\ tasks = NoneVal
    /\ ahist = [op |-> "init", session_id |-> 0, ok |-> TRUE, raised |-> NoneVal,
                by |-> "none", gate |-> "none", before |-> rate_limiter, at |-> 0,
                sleeps |-> 0, limited |-> {}, cleaned |-> {}]

\* rate_limiter.cleanup_session(session_id)
CleanupSession(session_id) ==
    /\ pc = "limiter"
    /\ rate_limiter' = cleanup_session(rate_limiter, session_id)
    /\ ahist' = [ahist EXCEPT !.op = "cleanup_session", !.session_id = session_id,
                              !.ok = TRUE, !.raised = NoneVal, !.by = "none",
                              !.gate = "none", !.before = rate_limiter, !.at = now,
                              !.cleaned = @ \cup {session_id}]
    /\ UNCHANGED <<bucket, window, sessions, storage, tasks>>
    /\ UNCHANGED vars
    /\ UNCHANGED rvars

\* an hour passes between two requests: every window is empty again
SleepHour ==
    /\ pc = "limiter"
    /\ ahist.sleeps < MaxSleeps
    /\ now' = now + HourWindow
    /\ ahist' = [ahist EXCEPT !.op = "sleep", !.session_id = 0, !.ok = TRUE,
                              !.raised = NoneVal, !.by = "none", !.gate = "none",
                              !.before = rate_limiter, !.at = now',
                              !.sleeps = @ + 1]
    /\ UNCHANGED <<bucket, window, rate_limiter, sessions, storage, tasks>>
    /\ UNCHANGED vars
    /\ UNCHANGED <<circuit_breaker, adapter, calls, rhist>>

NextCleanup ==
    \/ \E session_id \in Sessions : Check(session_id)
    \/ \E session_id \in Sessions : CleanupSession(session_id)
    \/ SleepHour

SpecCleanup == InitCleanup /\ [][NextCleanup]_<<vars, rvars, avars>>

\* C35: cleanup_session(id) removes exactly that session's limiter and leaves
\* the global limiter and every other session's limiter as they were (nothing
\* changes for an id without a limiter); the next check(id) that reaches the
\* session gate creates a fresh limiter of full capacity for it.
C35_CleanupRemovesOneLimiter ==
    /\ ahist.op = "cleanup_session" =>
          LET before == ahist.before
              id == ahist.session_id
          IN /\ DOMAIN rate_limiter.session_limiters
                   = DOMAIN before.session_limiters \ {id}
             /\ \A k \in DOMAIN rate_limiter.session_limiters :
                   rate_limiter.session_limiters[k] = before.session_limiters[k]
             /\ rate_limiter.global_limiter = before.global_limiter
             /\ rate_limiter.global_config = before.global_config
             /\ rate_limiter.per_session_config = before.per_session_config
             /\ id \notin DOMAIN before.session_limiters => rate_limiter = before
    /\ (/\ ahist.op = "check"
        /\ ahist.session_id \notin DOMAIN ahist.before.session_limiters
        /\ ahist.by # "global") =>
          LET fresh == RateLimiter(ahist.before.per_session_config, ahist.at) IN
          /\ fresh.bucket.tokens = fresh.bucket.capacity
          /\ fresh.minute_window.timestamps = <<>>
          /\ fresh.hour_window.timestamps = <<>>
          /\ ahist.ok
          /\ rate_limiter.session_limiters[ahist.session_id]
                = limiter_check(fresh, TRUE, ahist.at).limiter

\* a session that its limiter had rejected is admitted by the first check
\* after its cleanup, while the other session's limiter is still there
C35_Witness ==
    /\ ahist.op = "check"
    /\ ahist.ok
    /\ ahist.session_id \in ahist.limited
    /\ ahist.session_id \in ahist.cleaned
    /\ ahist.session_id \notin DOMAIN ahist.before.session_limiters
    /\ DOMAIN ahist.before.session_limiters # {}

\* ------------------------------------- what a rejected check has consumed
\* the bucket after the check holds one token less than it held at time t
Deducted(before, after, t) == after.tokens = _refill(before, t).tokens - OneToken

\* the window after the check holds the request's timestamp t
Stamped(before, after, t) == after.timestamps = Append(Recent(before, t), t)

\* the gates in front of the gate that rejected have consumed
EarlierGatesConsumed(before, after, gate, t) ==
    /\ gate \in {"minute", "hour"} => Deducted(before.bucket, after.bucket, t)
    /\ gate = "hour" => Stamped(before.minute_window, after.minute_window, t)

\* the limiter the session's check ran on: its own, or the one created for it
LimiterFor(srl, session_id, t) ==
    IF session_id \in DOMAIN srl.session_limiters
    THEN srl.session_limiters[session_id]
    ELSE RateLimiter(srl.per_session_config, t)

\* C36: a rejected admission check keeps what the gates before the rejecting
\* one consumed: the bucket token stays deducted when a window rejects, the
\* minute window keeps the timestamp when the hour window rejects, and the
\* global limiter keeps all it consumed when the per-session limiter rejects.
C36_RejectedCheckKeepsConsumption ==
    (pc = "limiter" /\ ahist.op = "check" /\ ~ahist.ok) =>
        LET before == ahist.before
            id == ahist.session_id
            t == ahist.at
        IN /\ ahist.by = "global" =>
                EarlierGatesConsumed(before.global_limiter, rate_limiter.global_limiter,
                                     ahist.gate, t)
           /\ ahist.by = "session" =>
                /\ Deducted(before.global_limiter.bucket,
                            rate_limiter.global_limiter.bucket, t)
                /\ Stamped(before.global_limiter.minute_window,
                           rate_limiter.global_limiter.minute_window, t)
                /\ Stamped(before.global_limiter.hour_window,
                           rate_limiter.global_limiter.hour_window, t)
                /\ EarlierGatesConsumed(LimiterFor(before, id, t),
                                        rate_limiter.session_limiters[id],
                                        ahist.gate, t)

\* the per-session hour window rejected a request that the global limiter,
\* the session's bucket and its minute window had let through
C36_Witness ==
    /\ pc = "limiter"
    /\ ahist.op = "check"
    /\ ~ahist.ok
    /\ ahist.by = "session"
    /\ ahist.gate = "hour"
    /\ Len(rate_limiter.session_limiters[ahist.session_id].minute_window.timestamps)
         > Len(rate_limiter.session_limiters[ahist.session_id].hour_window.timestamps)

\* ------------------------------------------ convergence needs consensus
\* the agreement of the two critiques convergence_node averages, un-halved,
\* as a numerator over LevelDen
AverageAgreement(s) ==
    2 * (s.architect_critique.agreement_level + s.engineer_critique.agreement_level)

LifecycleQuestions == {DesignQuestion, FollowUpQuestion}

Run(task, session) == [task |-> task, session |-> session, in_map |-> TRUE]

\* delete_session leaving the session file where it is
delete_session_memory_only(mem, files, session_id) ==
    [deleted |-> session_id \in DOMAIN mem,
     sessions |-> DictDel(mem, session_id),
     storage |-> files]

\* SessionManager.delete_session: what it returns, _sessions and the files
\* afterwards (SessionStorage.delete_session unlinks the file if it exists)
delete_session(mem, files, session_id) ==
    [deleted |-> session_id \in DOMAIN mem \/ session_id \in DOMAIN files,
     sessions |-> DictDel(mem, session_id),
     storage |-> DictDel(files, session_id)]

\* run_session after its loop (handlers.py 246-260): the session that it
\* saves and returns
finish_session(task, session, t) ==
    LET final_state ==
           IF task.final_state.final_adr # NoneVal
           THEN [task.final_state EXCEPT !.conversation_turns =
                    task.previous_turns
                    \o <<NewTurn(Len(task.previous_turns) + 1, session.question,
                                 task.final_state.final_adr)>>]
           ELSE task.final_state
    IN [update_state(session, final_state, t) EXCEPT !.is_complete = TRUE]

InitLifecycle ==
    /\ NoRun("manager")
    /\ bucket = NoneVal
    /\ window = NoneVal
    /\ rate_limiter = SessionRateLimiter(WidestConfig, WidestConfig, 0)
    /\ sessions = <<>>
    /\ storage = <<>>
    /\ tasks = <<>>
    /\ ahist = [last |-> NoOp, restarts |-> 0, shadowed |-> <<>>, resurrected |-> {}]

\* create_session(question, session_id = id) and run_session(id), as the
\* entry points call them one after the other
CreateSession(session_id, question) ==
    /\ pc = "manager"
    /\ Len(tasks) < MaxTasks
    /\ LET c == create_session(sessions, question, NoneVal, session_id, NoneVal, now)
           r == run_session_begin(c.sessions, storage, session_id, "design", now)
           call == [op |-> "create_session", session_id |-> session_id,
                    raised |-> c.raised,
                    in_memory |-> session_id \in DOMAIN sessions,
                    stored |-> session_id \in DOMAIN storage,
                    before |-> sessions]
       IN
       IF c.raised # NoneVal
       THEN /\ sessions' = c.sessions
            /\ tasks' = tasks
            /\ ahist' = [ahist EXCEPT !.last = call]
       ELSE /\ sessions' = r.sessions
            /\ tasks' = Append(tasks, Run(r.task, r.sessions[session_id]))
            /\ ahist' = [ahist EXCEPT !.last = call,
                            !.shadowed = IF session_id \in DOMAIN storage
                                         THEN DictSet(@, session_id, storage[session_id])
                                         ELSE DictDel(@, session_id)]
    /\ UNCHANGED <<rate_limiter, storage>>
    /\ ManagerFrame

\* the stream of run i yields a state: session.update_state(state_update)
RunYields(i, outcome) ==
    /\ pc = "manager"
    /\ tasks[i].task.pc = "stream"
    /\ outcome = "progress" => ~tasks[i].task.progressed
    /\ LET run == tasks[i]
           state_update == StreamStates(run.task)[outcome]
           session == update_state(run.session, state_update, now)
       IN
       /\ tasks' = [tasks EXCEPT ![i] =
                       [@ EXCEPT !.session = session,
                                 !.task = [@ EXCEPT
                                     !.final_state = state_update,
                                     !.progressed = TRUE,
                                     !.pc = IF outcome \in TerminalOutcomes
                                            THEN "last" ELSE "stream"]]]
       /\ sessions' = IF run.in_map
                      THEN DictSet(sessions, run.task.session_id, session)
                      ELSE sessions
    /\ ahist' = [ahist EXCEPT !.last = NoOp]
    /\ UNCHANGED <<rate_limiter, storage>>
    /\ ManagerFrame

\* the stream of run i is exhausted: run_session finishes its session object,
\* writes the session file and returns
RunEnds(i) ==
    /\ pc = "manager"
    /\ tasks[i].task.pc = "last"
    /\ LET run == tasks[i]
           id == run.task.session_id
           finished == finish_session(run.task, run.session, now)
       IN
       /\ tasks' = Without(tasks, i)
       /\ sessions' = IF run.in_map THEN DictSet(sessions, id, finished) ELSE sessions
       /\ storage' = DictSet(storage, id, SessionDataOf(finished))
       /\ ahist' = [ahist EXCEPT
                       !.last = [op |-> "run_session", session_id |-> id,
                                 in_map |-> run.in_map, terminal |-> finished,
                                 overwrote |-> id \in DOMAIN storage],
                       !.resurrected = IF run.in_map THEN @ \ {id} ELSE @ \cup {id}]
    /\ UNCHANGED rate_limiter
    /\ ManagerFrame

\* DELETE /design/{session_id}: session_manager.delete_session(session_id); the
\* runs on that session keep their object and go on
DeleteSession(session_id) ==
    /\ pc = "manager"
    /\ LET d == delete_session(sessions, storage, session_id) IN
       /\ sessions' = d.sessions
       /\ storage' = d.storage
       /\ tasks' = [i \in 1..Len(tasks) |->
                       IF tasks[i].task.session_id = session_id
                       THEN [tasks[i] EXCEPT !.in_map = FALSE]
                       ELSE tasks[i]]
       /\ ahist' = [ahist EXCEPT
                       !.last = [op |-> "delete_session", session_id |-> session_id,
                                 result |-> d.deleted,
                                 in_memory |-> session_id \in DOMAIN sessions,
                                 stored |-> session_id \in DOMAIN storage,
                                 runs |-> tasks],
                       !.resurrected = @ \ {session_id},
                       !.shadowed = DictDel(@, session_id)]
    /\ UNCHANGED rate_limiter
    /\ ManagerFrame

NextLifecycle ==
    \/ \E id \in SessionIds, q \in LifecycleQuestions : CreateSession(id, q)
    \/ \E i \in 1..Len(tasks), o \in {"progress"} \cup TerminalOutcomes : RunYields(i, o)
    \/ \E i \in 1..Len(tasks) : RunEnds(i)
    \/ \E id \in SessionIds : DeleteSession(id)
    \/ \E id \in SessionIds : GetSession(id)
    \/ Restart

SpecLifecycle == InitLifecycle /\ [][NextLifecycle]_<<vars, rvars, avars>>

\* the runs whose session object is the one _sessions holds under id
RunsInMap(id) == {i \in 1..Len(tasks) : tasks[i].in_map /\ tasks[i].task.session_id = id}

\* C38: create_session rejects a given id exactly when the id is in the
\* in-memory map: it then raises and leaves the map as it was, and no two
\* session objects are ever in the map under one id. For an id that exists
\* only as a persisted record it succeeds, the new session is what
\* get_session returns in place of the persisted one, and when the new
\* session's run completes its record replaces the persisted one.
C38_CreateChecksMemoryOnly ==
    /\ ahist.last.op = "create_session" =>
          LET c == ahist.last
              g == get_session(sessions, storage, c.session_id, now)
          IN /\ (c.raised # NoneVal) <=> c.in_memory
             /\ c.in_memory => sessions = c.before
             /\ (~c.in_memory /\ c.stored) =>
                   /\ c.raised = NoneVal
                   /\ c.session_id \in DOMAIN sessions
                   /\ ~g.loaded
                   /\ g.session = sessions[c.session_id]
                   /\ g.session # _load_from_storage(storage, c.session_id, now)
                   /\ g.session.state.conversation_turns = <<>>
                   /\ ~g.session.is_complete
    /\ \A id \in SessionIds :
          /\ Cardinality(RunsInMap(id)) <= 1
          /\ \A i \in RunsInMap(id) : id \in DOMAIN sessions /\ sessions[id] = tasks[i].session
    /\ ahist.last.op = "run_session" =>
          /\ ahist.last.session_id \in DOMAIN storage
          /\ storage[ahist.last.session_id] = SessionDataOf(ahist.last.terminal)

\* the run of a session created over a persisted record has completed and
\* its record has replaced a different one
C38_Witness ==
    /\ ahist.last.op = "run_session"
    /\ ahist.last.in_map
    /\ ahist.last.overwrote
    /\ ahist.last.session_id \in DOMAIN ahist.shadowed
    /\ storage[ahist.last.session_id] # ahist.shadowed[ahist.last.session_id]
    /\ storage[ahist.last.session_id].question
         # ahist.shadowed[ahist.last.session_id].question

\* C39: delete_session removes the session from memory and from storage and
\* returns true exactly when it was in one of them; it does not cancel the
\* runs on the session: a run in flight keeps its session object, goes on,
\* and at its end writes the session file again, after which get_session
\* finds the session.
C39_DeleteDoesNotCancelRun ==
    /\ ahist.last.op = "delete_session" =>
          LET d == ahist.last IN
          /\ d.result = (d.in_memory \/ d.stored)
          /\ d.session_id \notin DOMAIN sessions
          /\ d.session_id \notin DOMAIN storage
          /\ Len(tasks) = Len(d.runs)
          /\ \A i \in 1..Len(tasks) :
                /\ tasks[i].task = d.runs[i].task
                /\ tasks[i].session = d.runs[i].session
    /\ (ahist.last.op = "run_session" /\ ~ahist.last.in_map) =>
          /\ ahist.last.session_id \in DOMAIN storage
          /\ storage[ahist.last.session_id].is_complete
          /\ get_session(sessions, storage, ahist.last.session_id, now).session # NoneVal

\* get_session loads from storage the session that a run wrote after
\* delete_session had removed it
C39_Witness ==
    /\ ahist.last.op = "get_session"
    /\ ahist.last.session_id \in ahist.resurrected
    /\ ahist.restarts = 0
    /\ ahist.last.loaded
    /\ ahist.last.result # NoneVal
    /\ ahist.last.result.is_complete

\* ------------------------------------------ the breaker does not deny forever
\* Calls keep arriving (Generate), every model call in progress returns or
\* raises, sleeps end, callers take their results, and time passes.
AdapterFairness ==
    /\ WF_<<vars, rvars>>(Tick)
    /\ \A s \in Sessions :
          /\ WF_<<vars, rvars>>(Generate(s))
          /\ WF_<<vars, rvars>>(InvocationSucceeds(s) \/ InvocationFails(s))
          /\ WF_<<vars, rvars>>(SleepEnds(s))
          /\ WF_<<vars, rvars>>(CallOver(s))

SpecAdapterFair == SpecAdapter /\ AdapterFairness

\* the recovery time of the breaker lies within the time the model covers
RecoveryInReach ==
    circuit_breaker.last_failure_time + circuit_breaker.config.recovery_timeout <= MaxTime

\* a call enters with_retry in this step
CallArrives(s) == calls[s].pc = "idle" /\ calls'[s].pc # "idle"

\* the attempt of s in progress returns or raises in this step
AttemptEnds(s) == calls[s].pc = "invoking" /\ calls'[s] # calls[s]

\* C40: the breaker does not deny calls forever. From OPEN, the first
\* can_execute at or after recovery_timeout since the last recorded failure
\* moves it to HALF_OPEN and lets the call through; every call let through
\* while HALF_OPEN records an outcome that moves the breaker to CLOSED or
\* back to OPEN; so, with calls arriving and every permitted call ending,
\* an OPEN breaker is left once its recovery time has come and a HALF_OPEN
\* breaker does not stay HALF_OPEN.
C40_BreakerRecovers ==
    /\ [][\A s \in Sessions :
            /\ (/\ CallArrives(s)
                /\ circuit_breaker.state = "open"
                /\ now - circuit_breaker.last_failure_time
                     >= circuit_breaker.config.recovery_timeout)
                 => /\ circuit_breaker'.state = "half_open"
                    /\ calls'[s].pc = "invoking"
            /\ (AttemptEnds(s) /\ circuit_breaker.state = "half_open")
                 => circuit_breaker'.state \in {"closed", "open"}
         ]_<<vars, rvars>>
    /\ (circuit_breaker.state = "open" /\ RecoveryInReach)
          ~> (circuit_breaker.state # "open" \/ ~RecoveryInReach)
    /\ (circuit_breaker.state = "half_open")
          ~> (circuit_breaker.state \in {"closed", "open"})

\* a breaker that had opened and went HALF_OPEN is CLOSED again after the
\* call it let through succeeded
C40_Witness ==
    /\ pc = "adapter"
    /\ circuit_breaker.state = "closed"
    /\ circuit_breaker.last_failure_time > 0
    /\ now >= circuit_breaker.last_failure_time + circuit_breaker.config.recovery_timeout
    /\ \E s \in Sessions : calls[s].pc = "returned" /\ calls[s].invoked = <<1>>

====
